---------------------------- MODULE Spec2Model ----------------------------
(***************************************************************************)
(* Verification model of the allorai-app multi-agent travel backend.       *)
(*                                                                         *)
(* Components, each with its own specification over the shared variables:  *)
(*   GenSpec    utils/agents/generator.ts      (null-filling generator)    *)
(*   TokenSpec  utils/amadeus/tokenManager.ts  (OAuth token cache)         *)
(*   LoopSpec   agents/*Agent/index.ts         (hand-written tool loops)   *)
(*   Spec       index.ts + graph/*             (one /chat turn)            *)
(*   TipsSpec   graph/nodes/tips/tipsNode.ts   (the tips pipeline)         *)
(*   FanSpec    the two Promise.all fan-outs, one settlement at a time     *)
(*   BootSpec   module load (loadModel) and the first requests             *)
(***************************************************************************)
EXTENDS Integers, Sequences, FiniteSets, TLC

VARIABLES
    \* ---- generator (one call) ----
    genPc,          \* "idle" | "returned" | "threw"
    genData,        \* options.data : [isArray, value]
    genResponse,    \* the model's response text (or the failure of invoke)
    genOut,         \* the returned array
    \* ---- token cache ----
    cachedToken,    \* module variable cachedToken (0 = null, else token id)
    tokenExpiresAt, \* module variable tokenExpiresAt (epoch ms)
    now,            \* Date.now()
    callers,        \* per concurrent getAmadeusToken call: its position
    exchanges,      \* number of token exchanges answered so far
    issued,         \* history: token id -> the token's own expiry (epoch ms)
    expirySrc,      \* history: the exchange whose expires_in set tokenExpiresAt
    lastReturn,     \* history: how the latest getAmadeusToken call to end ended
    prevHit,        \* history: the token the call that ended before it got from the cache, else 0
    \* ---- hand-written tool loops (runArithmeticAgent, runFlightAgent) ----
    loopAgent,      \* which loop runs
    loopInput,      \* its input messages (the conversation so far)
    loopMessages,   \* let messages
    loopPc,         \* "idle" | "callLlm" | "callTools" | "post" | "done" | "raised"
    loopPending,    \* modelResponse.tool_calls.length of the response being served
    loopToolsCalled,\* let toolsCalledThisTurn
    loopIters,      \* history: tool rounds served in this run
    loopResult,     \* what the run resolved to
    \* ---- one /chat request through the graph ----
    env,            \* process.env: USE_PLACES_API, GENERATE_SUMMARIES, USE_FLIGHT_API
    chatPc,         \* "idle" | "router" | "node" | "end" | "raised" | "responded"
    reqMessages,    \* req.body.messages
    reqData,        \* req.body.data
    reqTrip,        \* req.body.trip
    gMessages,      \* AgentState.messages
    gIntent,        \* AgentState.intent
    gTrip,          \* AgentState.trip
    gData,          \* AgentState.data
    nodeRan,        \* history: the graph node that ran after the router
    nodeUpdate,     \* history: the Partial<AgentState> that node returned
    calls,          \* history: external calls the node made
    turnRuns,       \* history: how often the router and nodes ran in this turn
    chatResponse,   \* what /chat answered
    \* ---- one generateTips(trip) call ----
    tips,           \* its position, its local variables, and what it resolved to
    \* ---- one Promise.all(requests.map(f)) ----
    fan,            \* the requests, the result array being filled, the order of settling
    \* ---- the process from its start ----
    boot,           \* process.env, the tiers whose model is loaded, the requests served
    \* ---- one call of the searchFlights tool ----
    search          \* the provider's answer, the loop's position, the results pushed

genVars == <<genPc, genData, genResponse, genOut>>
tokenVars == <<cachedToken, tokenExpiresAt, now, callers, exchanges, issued,
               expirySrc, lastReturn, prevHit>>
loopVars == <<loopAgent, loopInput, loopMessages, loopPc, loopPending,
              loopToolsCalled, loopIters, loopResult>>
chatVars == <<env, chatPc, reqMessages, reqData, reqTrip, gMessages, gIntent, gTrip, gData,
              nodeRan, nodeUpdate, calls, turnRuns, chatResponse>>
tipsVars == <<tips>>
fanVars == <<fan>>
bootVars == <<boot>>
searchVars == <<search>>
vars == <<genVars, tokenVars, loopVars, chatVars, tipsVars, fanVars, bootVars, searchVars>>

\* what the steps of one component leave alone
GenFrame == UNCHANGED <<tokenVars, loopVars, chatVars, tipsVars, fanVars, bootVars, searchVars>>
TokenFrame == UNCHANGED <<genVars, loopVars, chatVars, tipsVars, fanVars, bootVars, searchVars>>
LoopFrame == UNCHANGED <<genVars, tokenVars, chatVars, tipsVars, fanVars, bootVars, searchVars>>
ChatFrame == UNCHANGED <<genVars, tokenVars, loopVars, tipsVars, fanVars, bootVars, searchVars>>
TipsFrame == UNCHANGED <<genVars, tokenVars, loopVars, chatVars, fanVars, bootVars, searchVars>>
FanFrame == UNCHANGED <<genVars, tokenVars, loopVars, chatVars, tipsVars, bootVars, searchVars>>
BootFrame == UNCHANGED <<genVars, tokenVars, loopVars, chatVars, tipsVars, fanVars, searchVars>>
SearchFrame == UNCHANGED <<genVars, tokenVars, loopVars, chatVars, tipsVars, fanVars, bootVars>>

Null == "null"
Undefined == "undefined"

(***************************************************************************)
(* Generic helpers.                                                        *)
(***************************************************************************)
SeqsUpTo(S, n) == UNION {[1..k -> S] : k \in 0..n}

(***************************************************************************)
(* generator<T>  (utils/agents/generator.ts)                               *)
(*                                                                         *)
(* Objects are functions from field names to values; a key the object      *)
(* does not have maps to Undefined.  A template carries a generated id and *)
(* null for what is to be filled.                                          *)
(***************************************************************************)
MaxTemplates == 2
MaxItems == 3

Fields == {"id", "name"}

Templates == {t \in [Fields -> {"a", "b", "n", Null}] :
                 /\ t["id"] \in {"a", "b"}
                 /\ t["name"] \in {"n", Null}}

\* an element of the model's answer: an object, or a JSON null / primitive
NonObject == [isObject |-> FALSE, fields |-> [f \in Fields |-> Undefined]]
ModelItems == {[isObject |-> TRUE, fields |-> m] :
                  m \in {m \in [Fields -> {"x", Null, Undefined}] :
                            /\ m["id"] \in {"x", Undefined}
                            /\ m["name"] \in {"x", Null}}}
              \cup {NonObject}

\* options.data: a single template or an array of templates
GenInputs == {[isArray |-> FALSE, value |-> <<t>>] : t \in Templates}
        \cup {[isArray |-> TRUE, value |-> ts] : ts \in SeqsUpTo(Templates, MaxTemplates)}

\* JSON values the model may answer with: an array of elements or one element
JsonValues == {[valid |-> TRUE, isArray |-> TRUE, items |-> is] :
                  is \in SeqsUpTo(ModelItems, MaxItems)}
         \cup {[valid |-> TRUE, isArray |-> FALSE, items |-> <<i>>] : i \in ModelItems}
Garbage == [valid |-> FALSE, isArray |-> FALSE, items |-> <<>>]  \* text that is no JSON

\* response.content: JSON text, possibly inside a Markdown code fence, or no JSON
ResponseTexts == {[failed |-> FALSE, fenced |-> f, body |-> v] :
                     f \in BOOLEAN, v \in JsonValues \cup {Garbage}}

\* model.invoke rejects
InvokeFailed == [failed |-> TRUE, fenced |-> FALSE, body |-> Garbage]
GenResponses == ResponseTexts \cup {InvokeFailed}

\* const dataArray = Array.isArray(options.data) ? options.data : [options.data]
\* (a single object is held as the one-element tuple of it: .value[1])
Normalize(data) == IF data.isArray THEN data.value ELSE <<data.value[1]>>

\* JSON.parse: throws on fenced text and on text that is no JSON
JsonParse(text) ==
    IF text.fenced \/ ~text.body.valid
    THEN [ok |-> FALSE, value |-> Garbage]
    ELSE [ok |-> TRUE, value |-> text.body]

\* text.replace(/^```(?:json)?\s*\n?/i, "").replace(/\n?```\s*$/i, "")
StripFences(text) == [text EXCEPT !.fenced = FALSE]

\* try { JSON.parse(text) } catch { JSON.parse(stripped) }
ParseResponse(text) ==
    LET direct == JsonParse(text)
    IN  IF direct.ok THEN direct ELSE JsonParse(StripFences(text))

\* if (!Array.isArray(parsed)) parsed = [parsed]
AsArray(value) == IF value.isArray THEN value.items ELSE <<value.items[1]>>

\* { ...item }
Spread(item) == IF item.isObject THEN item.fields ELSE [f \in Fields |-> Undefined]

\* the defensive overwrite of one element from its template
PreserveLoose(item, original) ==
    [f \in Fields |-> IF Spread(item)[f] \in {Null, Undefined}
                      THEN original[f] ELSE Spread(item)[f]]

Preserve(item, original) ==
    [f \in Fields |-> IF original[f] # Null /\ original[f] # Undefined
                      THEN original[f] ELSE Spread(item)[f]]

\* dataArray[index] ?? dataArray[0]!   (indices from 1 here)
OriginalFor(dataArray, index) ==
    IF index <= Len(dataArray) THEN dataArray[index]
    ELSE dataArray[1]

\* parsed.map((item, index) => ...)
MapPreserve(parsed, dataArray) ==
    [i \in 1..Len(parsed) |-> Preserve(parsed[i], OriginalFor(dataArray, i))]

\* the whole call: [threw, out]
generator(data, response) ==
    LET dataArray == Normalize(data)
        p == ParseResponse(response)
    IN  IF response.failed THEN [threw |-> TRUE, out |-> <<>>]
        ELSE IF ~p.ok THEN [threw |-> TRUE, out |-> <<>>]
        \* Object.keys(undefined) throws when there is no template at all
        ELSE IF Len(AsArray(p.value)) > 0 /\ Len(dataArray) = 0
             THEN [threw |-> TRUE, out |-> <<>>]
        ELSE [threw |-> FALSE, out |-> MapPreserve(AsArray(p.value), dataArray)]

GenInit ==
    /\ genPc = "idle"
    /\ genData = [isArray |-> TRUE, value |-> <<>>]
    /\ genResponse = InvokeFailed
    /\ genOut = <<>>

GeneratorCall ==
    /\ genPc = "idle"
    /\ \E data \in GenInputs, response \in GenResponses :
          LET r == generator(data, response)
          IN  /\ genData' = data
              /\ genResponse' = response
              /\ genOut' = r.out
              /\ genPc' = IF r.threw THEN "threw" ELSE "returned"
    /\ GenFrame

(***************************************************************************)
(* Token cache  (utils/amadeus/tokenManager.ts)                            *)
(*                                                                         *)
(* Several getAmadeusToken calls may be in flight at once; each is         *)
(* suspended only at `await fetchAmadeusToken()`.  A token is identified   *)
(* by the number of the exchange that issued it.  Time is in milliseconds  *)
(* and advances in steps of one minute.                                    *)
(***************************************************************************)
BUFFER_MS == 300000
NumCallers == 2
MaxTicks == 4
MaxExchanges == 2

TickMs == 60 * 1000
StartMs == 10 * TickMs
Callers == 1..NumCallers
\* expires_in (seconds) the token endpoint may answer with
ExpiresInChoices == {60, 300, 420}

NoReturn == [path |-> "none", token |-> 0, at |-> 0, expiresIn |-> 0, overlapped |-> FALSE]

\* when the token of an exchange answered at time t expires
OwnExpiry(t, expiresIn) == t + expiresIn * 1000

\* cachedToken && Date.now() < tokenExpiresAt
CacheValidInclusive(token, expiresAt, t) == token # 0 /\ t <= expiresAt

CacheValidEarlier(token, expiresAt, t) == token # 0 /\ t + TickMs < expiresAt

CacheValid(token, expiresAt, t) == token # 0 /\ t < expiresAt

\* cachedToken = tokenResponse.access_token
StoredTokenKeepFirst(old, new) == IF old # 0 THEN old ELSE new

StoredToken(old, new) == new

\* Date.now() + tokenResponse.expires_in * 1000 - BUFFER_MS
NewExpiresAtNoBuffer(t, expiresIn) == t + expiresIn * 1000

NewExpiresAt(t, expiresIn) == t + expiresIn * 1000 - BUFFER_MS

\* what prevHit becomes when another call ends
HitBefore == IF lastReturn.path = "hit" THEN lastReturn.token ELSE 0

OtherFetching(c) == \E d \in Callers : d # c /\ callers[d].pc = "fetching"

TokenInit ==
    /\ cachedToken = 0
    /\ tokenExpiresAt = 0
    /\ now = StartMs
    /\ callers = [c \in Callers |-> [pc |-> "idle", overlapped |-> FALSE]]
    /\ exchanges = 0
    /\ issued = [i \in 1..MaxExchanges |-> 0]
    /\ expirySrc = 0
    /\ lastReturn = NoReturn
    /\ prevHit = 0

\* the cache-hit path: return cachedToken, no network call
GetTokenHit(c) ==
    /\ callers[c].pc = "idle"
    /\ CacheValid(cachedToken, tokenExpiresAt, now)
    /\ lastReturn' = [path |-> "hit", token |-> cachedToken, at |-> now,
                      expiresIn |-> 0, overlapped |-> FALSE]
    /\ prevHit' = HitBefore
    /\ UNCHANGED <<cachedToken, tokenExpiresAt, now, callers, exchanges, issued,
                   expirySrc>>
    /\ TokenFrame

\* the refresh path up to its suspension at `await fetchAmadeusToken()`
GetTokenMiss(c) ==
    /\ callers[c].pc = "idle"
    /\ ~CacheValid(cachedToken, tokenExpiresAt, now)
    /\ callers' = [d \in Callers |->
           IF d = c THEN [pc |-> "fetching", overlapped |-> OtherFetching(c)]
           ELSE IF callers[d].pc = "fetching"
                THEN [callers[d] EXCEPT !.overlapped = TRUE]
                ELSE callers[d]]
    /\ UNCHANGED <<cachedToken, tokenExpiresAt, now, exchanges, issued, expirySrc,
                   lastReturn, prevHit>>
    /\ TokenFrame

\* the exchange answers; the two assignments and the return run without suspension
ExchangeOk(c) ==
    /\ callers[c].pc = "fetching"
    /\ exchanges < MaxExchanges
    /\ \E expiresIn \in ExpiresInChoices :
          LET id == exchanges + 1
              stored == StoredToken(cachedToken, id)
          IN  /\ exchanges' = id
              /\ issued' = [issued EXCEPT ![id] = OwnExpiry(now, expiresIn)]
              /\ cachedToken' = stored
              /\ tokenExpiresAt' = NewExpiresAt(now, expiresIn)
              /\ expirySrc' = id
              /\ lastReturn' = [path |-> "refresh", token |-> stored, at |-> now,
                                expiresIn |-> expiresIn,
                                overlapped |-> callers[c].overlapped]
    /\ callers' = [callers EXCEPT ![c] = [pc |-> "idle", overlapped |-> FALSE]]
    /\ prevHit' = HitBefore
    /\ UNCHANGED now
    /\ TokenFrame

\* a refresh that forgets the cache when its exchange fails
ExchangeFailClearsCache(c) ==
    /\ callers[c].pc = "fetching"
    /\ callers' = [callers EXCEPT ![c] = [pc |-> "idle", overlapped |-> FALSE]]
    /\ lastReturn' = [path |-> "threw", token |-> 0, at |-> now, expiresIn |-> 0,
                      overlapped |-> callers[c].overlapped]
    /\ prevHit' = HitBefore
    /\ cachedToken' = 0
    /\ tokenExpiresAt' = 0
    /\ UNCHANGED <<now, exchanges, issued, expirySrc>>
    /\ TokenFrame

\* fetchAmadeusToken throws (missing credentials, non-OK response): the call rejects
ExchangeFail(c) ==
    /\ callers[c].pc = "fetching"
    /\ callers' = [callers EXCEPT ![c] = [pc |-> "idle", overlapped |-> FALSE]]
    /\ lastReturn' = [path |-> "threw", token |-> 0, at |-> now, expiresIn |-> 0,
                      overlapped |-> callers[c].overlapped]
    /\ prevHit' = HitBefore
    /\ UNCHANGED <<cachedToken, tokenExpiresAt, now, exchanges, issued, expirySrc>>
    /\ TokenFrame

Tick ==
    /\ now < StartMs + MaxTicks * TickMs
    /\ now' = now + TickMs
    /\ UNCHANGED <<cachedToken, tokenExpiresAt, callers, exchanges, issued, expirySrc,
                   lastReturn, prevHit>>
    /\ TokenFrame

(***************************************************************************)
(* Conversation messages.  A message is [type, content, calls]: calls is   *)
(* the number of tool calls an assistant message carries; the content of a *)
(* tool message is the text the tool returned.                             *)
(***************************************************************************)
Human(text) == [type |-> "human", content |-> text, calls |-> 0]
Ai(text) == [type |-> "ai", content |-> text, calls |-> 0]
AiToolCalls(n) == [type |-> "ai", content |-> "", calls |-> n]
ToolMsg(text) == [type |-> "tool", content |-> text, calls |-> 0]

Apology == "Something went wrong. Please try again later."

\* JSON.parse of a tool message's text: what kind of value it is, or a throw
ParseToolJson(text) ==
    CASE text = "arrayA" -> [ok |-> TRUE, isArray |-> TRUE, length |-> 2, error |-> FALSE]
      [] text = "arrayB" -> [ok |-> TRUE, isArray |-> TRUE, length |-> 1, error |-> FALSE]
      [] text = "emptyArray" -> [ok |-> TRUE, isArray |-> TRUE, length |-> 0, error |-> FALSE]
      [] text = "errorObject" -> [ok |-> TRUE, isArray |-> FALSE, length |-> 0, error |-> TRUE]
      [] text = "errorNoMessage" -> [ok |-> TRUE, isArray |-> FALSE, length |-> 0, error |-> TRUE]
      [] text = "null" -> [ok |-> TRUE, isArray |-> FALSE, length |-> 0, error |-> FALSE]
      [] text = "object" -> [ok |-> TRUE, isArray |-> FALSE, length |-> 0, error |-> FALSE]
      [] text = "number" -> [ok |-> TRUE, isArray |-> FALSE, length |-> 0, error |-> FALSE]
      [] OTHER -> [ok |-> FALSE, isArray |-> FALSE, length |-> 0, error |-> FALSE]

\* the first message of type t (a forward scan): its index, 0 when none
FirstIndexOfType(msgs, t) ==
    IF \E i \in 1..Len(msgs) : msgs[i].type = t
    THEN CHOOSE i \in 1..Len(msgs) :
            /\ msgs[i].type = t
            /\ \A j \in 1..(i - 1) : msgs[j].type # t
    ELSE 0

\* messages.some((m) => m.type === "tool")
hasToolOutput(msgs) == \E i \in 1..Len(msgs) : msgs[i].type = "tool"

\* [...messages].reverse().find((m) => m.type === t): its index, 0 when none
LastIndexOfType(msgs, t) ==
    IF \E i \in 1..Len(msgs) : msgs[i].type = t
    THEN CHOOSE i \in 1..Len(msgs) :
            /\ msgs[i].type = t
            /\ \A j \in (i + 1)..Len(msgs) : msgs[j].type # t
    ELSE 0

\* extractLastToolJson: [threw, text, value]
extractLastToolJson(msgs) ==
    LET i == LastIndexOfType(msgs, "tool")
    IN  IF i = 0
        THEN [threw |-> TRUE, text |-> "", value |-> ParseToolJson("")]
        ELSE [threw |-> ~ParseToolJson(msgs[i].content).ok,
              text |-> msgs[i].content,
              value |-> ParseToolJson(msgs[i].content)]

(***************************************************************************)
(* The hand-written tool loops                                             *)
(*   "arithmetic"   runArithmeticAgent  agents/arithmeticAgent/index.ts:15 *)
(*   "flight"       runFlightAgent      agents/arithmeticAgent/index.ts:59 *)
(*   "flightLegacy" runFlightAgent      agents/flightAgent/index.ts:18     *)
(* A step ends at each await.                                              *)
(***************************************************************************)
LoopBound == 3
MaxCalls == 2

LoopAgents == {"arithmetic", "flight", "flightLegacy"}
\* what a tool may return in these runs
LoopToolTexts == {"arrayA", "number"}

\* conversations a run starts from; the CLI keeps tool messages of earlier turns
LoopHistories ==
    { <<Human("q")>>,
      <<Human("q"), Ai("reply"), Human("q")>>,
      <<Human("q"), AiToolCalls(1), ToolMsg("number"), Ai("reply"), Human("q")>>,
      <<Human("q"), AiToolCalls(1), ToolMsg("arrayB"), Ai("reply"), Human("q")>> }

NoResult == [kind |-> "none", text |-> "", data |-> "", messages |-> <<>>]
Raised == [kind |-> "raised", text |-> "", data |-> "", messages |-> <<>>]

LoopInit ==
    /\ loopAgent = "arithmetic"
    /\ loopInput = <<>>
    /\ loopMessages = <<>>
    /\ loopPc = "idle"
    /\ loopPending = 0
    /\ loopToolsCalled = FALSE
    /\ loopIters = 0
    /\ loopResult = NoResult

\* let messages = [...input]
LoopStart ==
    /\ loopPc = "idle"
    /\ \E agent \in LoopAgents, input \in LoopHistories :
          /\ loopAgent' = agent
          /\ loopInput' = input
          /\ loopMessages' = input
    /\ loopPc' = "callLlm"
    /\ UNCHANGED <<loopPending, loopToolsCalled, loopIters, loopResult>>
    /\ LoopFrame

\* a rejected await: runFlightAgent catches it, the other two loops do not
LoopThrow ==
    IF loopAgent = "flight"
    THEN /\ loopPc' = "done"
         /\ loopResult' = [kind |-> "clarification", text |-> Apology, data |-> "",
                           messages |-> Append(loopInput, Ai(Apology))]
    ELSE /\ loopPc' = "raised"
         /\ loopResult' = Raised

\* modelResponse = await callLlm(messages); messages = addMessages(messages, [modelResponse])
LlmFinal ==
    /\ loopPc = "callLlm"
    /\ loopMessages' = Append(loopMessages, Ai("reply"))
    /\ loopPc' = "post"
    /\ UNCHANGED <<loopAgent, loopInput, loopPending, loopToolsCalled, loopIters,
                   loopResult>>
    /\ LoopFrame

LlmToolCalls ==
    /\ loopPc = "callLlm"
    /\ loopIters < LoopBound
    /\ \E n \in 1..MaxCalls :
          /\ loopMessages' = Append(loopMessages, AiToolCalls(n))
          /\ loopPending' = n
    /\ loopToolsCalled' = TRUE
    /\ loopPc' = "callTools"
    /\ UNCHANGED <<loopAgent, loopInput, loopIters, loopResult>>
    /\ LoopFrame

LlmThrows ==
    /\ loopPc = "callLlm"
    /\ LoopThrow
    /\ UNCHANGED <<loopAgent, loopInput, loopMessages, loopPending, loopToolsCalled,
                   loopIters>>
    /\ LoopFrame

\* addMessages(left, right) for messages that are not yet in left: appended
addMessages(left, right) == left \o right
\* every message of right appended, also one that left already holds
addMessagesTwice(left, response, toolResults) == left \o <<response>> \o toolResults
\* addMessages(messages, [modelResponse, ...toolResults]) of the legacy loop:
\* modelResponse is already the last of messages, and addMessages merges by
\* message id, so it is replaced where it stands and only the results are new
addMessagesAgain(left, response, toolResults) ==
    SubSeq(left, 1, Len(left) - 1) \o <<response>> \o toolResults

\* toolResults = await Promise.all(tool_calls.map(callTool)); messages = addMessages(...)
ToolsReturn ==
    /\ loopPc = "callTools"
    /\ \E results \in [1..loopPending -> LoopToolTexts] :
          LET toolResults == [i \in 1..loopPending |-> ToolMsg(results[i])]
          IN  loopMessages' =
                IF loopAgent = "flightLegacy"
                THEN addMessagesAgain(loopMessages, loopMessages[Len(loopMessages)],
                                      toolResults)
                ELSE addMessages(loopMessages, toolResults)
    /\ loopIters' = loopIters + 1
    /\ loopPending' = 0
    /\ loopPc' = "callLlm"
    /\ UNCHANGED <<loopAgent, loopInput, loopToolsCalled, loopResult>>
    /\ LoopFrame

\* callTool throws (unknown tool, or the tool itself rejects)
ToolsThrow ==
    /\ loopPc = "callTools"
    /\ LoopThrow
    /\ UNCHANGED <<loopAgent, loopInput, loopMessages, loopPending, loopToolsCalled,
                   loopIters>>
    /\ LoopFrame

\* whether this run counts as one in which a tool was called
ToolCalledTest(agent, toolsCalledThisTurn, msgs) ==
    IF agent = "flightLegacy" THEN hasToolOutput(msgs) ELSE toolsCalledThisTurn

\* the text of [...messages].reverse().find((m) => m.type === "ai")
LastAiText(msgs) ==
    IF LastIndexOfType(msgs, "ai") = 0 THEN "I need more details."
    ELSE msgs[LastIndexOfType(msgs, "ai")].content

\* everything after the loop, up to the return
LoopPost ==
    /\ loopPc = "post"
    /\ \E summarizeOk \in BOOLEAN :
          LET tool == extractLastToolJson(loopMessages)
              called == ToolCalledTest(loopAgent, loopToolsCalled, loopMessages)
          IN  IF loopAgent = "arithmetic"
              THEN /\ loopPc' = "done"
                   /\ loopResult' = [kind |-> "messages", text |-> "", data |-> "",
                                     messages |-> loopMessages]
              ELSE IF ~called
              THEN /\ loopPc' = "done"
                   /\ loopResult' = [kind |-> "clarification",
                                     text |-> LastAiText(loopMessages), data |-> "",
                                     messages |-> IF loopAgent = "flight"
                                                  THEN loopMessages ELSE <<>>]
              ELSE IF tool.threw \/ ~summarizeOk
              THEN LoopThrow
              ELSE IF loopAgent = "flight" /\ (~tool.value.isArray \/ tool.value.length = 0)
              THEN /\ loopPc' = "done"
                   /\ loopResult' = [kind |-> "clarification", text |-> Apology,
                                     data |-> "",
                                     messages |-> Append(loopMessages, Ai(Apology))]
              ELSE /\ loopPc' = "done"
                   /\ loopResult' = [kind |-> "results", text |-> "summary",
                                     data |-> tool.text,
                                     messages |-> IF loopAgent = "flight"
                                                  THEN loopMessages ELSE <<>>]
    /\ UNCHANGED <<loopAgent, loopInput, loopMessages, loopPending, loopToolsCalled,
                   loopIters>>
    /\ LoopFrame

(***************************************************************************)
(* One /chat request: POST /chat -> graph.invoke -> router -> one node ->  *)
(* END -> response.  A trip is held by which of its fields are present; a  *)
(* `data` value is [type, summary, options, message], options naming the   *)
(* payload it carries.                                                     *)
(***************************************************************************)
MaxRounds == 2

EnvUnset == [USE_PLACES_API |-> Undefined, GENERATE_SUMMARIES |-> Undefined,
             USE_FLIGHT_API |-> Undefined]
EnvChoices ==
    [USE_PLACES_API : {"true", "false"}, GENERATE_SUMMARIES : {"true", "false"},
     USE_FLIGHT_API : {"true", "false", Undefined}]

\* const USE_PLACES_API = process.env.USE_PLACES_API === "true"
PlacesApiAlways == TRUE
USE_PLACES_API == env.USE_PLACES_API = "true"
\* const GENERATE_SUMMARIES = process.env.GENERATE_SUMMARIES === "true"
GENERATE_SUMMARIES == env.GENERATE_SUMMARIES = "true"
\* const useFlightApi = process.env.USE_FLIGHT_API === "false"
useFlightApi == env.USE_FLIGHT_API = "false"

createEmptyTrip ==
    [destination |-> FALSE, airport |-> FALSE, flightFields |-> FALSE,
     destinationCoords |-> FALSE, hotelCoords |-> FALSE]
\* flightFields: origin, departureDate and returnDate are all present;
\* airport: the destination is the IATA code of an airport of airports.json
\* ("NRT"), not any other text ("Tokyo")
Trips ==
    { createEmptyTrip,
      [destination |-> TRUE, airport |-> TRUE, flightFields |-> FALSE,
       destinationCoords |-> FALSE, hotelCoords |-> FALSE],
      [destination |-> TRUE, airport |-> FALSE, flightFields |-> TRUE,
       destinationCoords |-> FALSE, hotelCoords |-> TRUE],
      [destination |-> TRUE, airport |-> FALSE, flightFields |-> TRUE,
       destinationCoords |-> TRUE, hotelCoords |-> TRUE] }

ResponseData(type, summary, options, message) ==
    [type |-> type, summary |-> summary, options |-> options, message |-> message]
\* null / undefined
NoData == ResponseData("none", "", "", "")
\* what a client may send back as `data`: nothing, or the result of an earlier turn
RequestData == {NoData, ResponseData("hotel", "earlier", "earlier", "")}

\* the conversation a client sends: human and assistant texts only
ChatHistories ==
    { <<Human("q")>>,
      <<Human("q"), Ai("reply"), Human("q")>>,
      <<Human(""), Ai(" "), Human("q")>> }

Intents == {"arithmetic", "flights", "hotel", "restaurant", "selfie", "activities",
            "nature", "unsupported"}
\* what parsed.intent may be: an Intent, anything else the model wrote, or
\* undefined when the parsed value has no intent field
ParsedIntents == Intents \cup {"other", Undefined}

\* a node's return value, or its rejection
UpdateNewOnly(msgs) ==
    [raised |-> FALSE,
     messages |-> IF msgs = <<>> THEN <<>> ELSE <<msgs[Len(msgs)]>>,
     hasData |-> FALSE, data |-> NoData]
Update(msgs) == [raised |-> FALSE, messages |-> msgs, hasData |-> FALSE, data |-> NoData]
UpdateWithData(msgs, d) == [raised |-> FALSE, messages |-> msgs, hasData |-> TRUE, data |-> d]
NodeRaises == [raised |-> TRUE, messages |-> <<>>, hasData |-> FALSE, data |-> NoData]
NoUpdate == Update(<<>>)

\* nanoid(): the i-th id drawn by a node; ids are taken to be fresh
nanoid(i) == i

\* the templates the nodes hand to the generator: an id, every other field null
createHotelTemplate(id) ==
    [id |-> id, name |-> Null, location |-> Null, rating |-> Null, latitude |-> Null,
     longitude |-> Null, description |-> Null, website |-> Null, imageUrl |-> ""]
\* createRestaurantTemplate, createNatureTemplate and createSelfieTemplate alike
createRestaurantTemplate(id) ==
    [id |-> id, name |-> Null, location |-> Null, description |-> Null,
     website |-> Null]
createActivitiesTemplate(id) ==
    [id |-> id, name |-> Null, location |-> Null, description |-> Null,
     website |-> Null, imageUrl |-> ""]
createFlightTemplate(id) ==
    [id |-> id, price |-> Null, currency |-> Null, legs |-> Null,
     destinationAirport |-> Null]
createTemplate(type, id) ==
    CASE type = "hotel" -> createHotelTemplate(id)
      [] type = "activities" -> createActivitiesTemplate(id)
      [] type = "flight" -> createFlightTemplate(id)
      [] OTHER -> createRestaurantTemplate(id)

\* buildTripContext(trip): of the fields it copies the model's trip has destination
buildTripContext(trip) == [destination |-> trip.destination]

\* the `description` argument of each node's generator call, word by word (of
\* the longer ones the words up to the first comma or full stop)
Description(type) ==
    CASE type = "hotel" ->
            <<"hotel", "recommendations", "near", "the", "trip", "destination">>
      [] type = "restaurant" ->
            <<"restaurant", "recommendations", "near", "the", "trip", "destination">>
      [] type = "activities" ->
            <<"activity", "recommendations", "near", "the", "trip", "destination">>
      [] type = "nature" ->
            <<"nature", "activity", "recommendations", "near", "the", "trip",
              "destination">>
      [] type = "selfie" ->
            <<"selfie", "spot", "recommendations", "near", "the", "trip", "destination",
              "where", "tourists", "can", "take", "great", "selfie", "photos">>
      [] OTHER -> <<"round-trip", "flight", "options">>

\* generator({data: Array.from({length: n}, () => create...Template()), context,
\* description}), and how many times the node called it
GeneratorArgs(type, trip, n) ==
    [called |-> 1, data |-> [i \in 1..n |-> createTemplate(type, nanoid(i))],
     context |-> buildTripContext(trip), description |-> Description(type)]
NoGeneratorArgs ==
    [called |-> 0, data |-> <<>>, context |-> [destination |-> FALSE],
     description |-> <<>>]

\* the external calls a node made
Calls(source, templates, clarified, summarized) ==
    [source |-> source, templates |-> templates, clarified |-> clarified,
     summarized |-> summarized, placeType |-> "none", coords |-> "none",
     generator |-> NoGeneratorArgs, failed |-> "none"]
\* the node's one call of the generator, over `templates` templates
GeneratorCalled(type, trip, templates, summarized) ==
    [Calls("generator", templates, FALSE, summarized)
        EXCEPT !.generator = GeneratorArgs(type, trip, templates)]
\* searchNearbyPlaces({type, latitude, longitude}): coords names the pair passed
PlacesCall(type, coords, summarized) ==
    [source |-> "places", templates |-> 0, clarified |-> FALSE,
     summarized |-> summarized, placeType |-> type, coords |-> coords,
     generator |-> NoGeneratorArgs, failed |-> "none"]
\* the call of `made` that rejected: the data source ("source") or the summary
Failed(made, step) == [made EXCEPT !.failed = step]
NoCalls == Calls("none", 0, FALSE, FALSE)

NoRuns == [router |-> 0, node |-> 0]

NoResponse ==
    [status |-> "none", messages |-> <<>>, data |-> NoData, trip |-> createEmptyTrip]

ChatInit ==
    /\ env = EnvUnset
    /\ chatPc = "boot"
    /\ reqMessages = <<>>
    /\ reqData = NoData
    /\ reqTrip = createEmptyTrip
    /\ gMessages = <<>>
    /\ gIntent = Null
    /\ gTrip = createEmptyTrip
    /\ gData = NoData
    /\ nodeRan = "none"
    /\ nodeUpdate = NoUpdate
    /\ calls = NoCalls
    /\ turnRuns = NoRuns
    /\ chatResponse = NoResponse

\* module load: the flags are read from process.env once
LoadEnv ==
    /\ chatPc = "boot"
    /\ env' \in EnvChoices
    /\ chatPc' = "idle"
    /\ UNCHANGED <<reqMessages, reqData, reqTrip, gMessages, gIntent, gTrip, gData, nodeRan,
                   nodeUpdate, calls, turnRuns, chatResponse>>
    /\ ChatFrame

\* data: Annotation<ResponseData | null>({ reducer: (_, y) => y })
DataReducerKeep(x, y) == x
DataReducer(x, y) == y

\* POST /chat up to graph.invoke({messages, trip: trip || createEmptyTrip(),
\* data: data || null}); intent takes its default
ChatRequest ==
    /\ chatPc \in {"idle", "responded"}
    /\ \E msgs \in ChatHistories, trip \in Trips, data \in RequestData :
          /\ reqMessages' = msgs
          /\ reqData' = data
          /\ reqTrip' = trip
          /\ gMessages' = msgs
          /\ gTrip' = trip
          /\ gData' = data
    /\ gIntent' = Null
    /\ nodeRan' = "none"
    /\ nodeUpdate' = NoUpdate
    /\ calls' = NoCalls
    /\ turnRuns' = NoRuns
    /\ chatResponse' = NoResponse
    /\ chatPc' = "router"
    /\ UNCHANGED env
    /\ ChatFrame

\* POST /chat with a body whose messages is not an array
ChatBadRequest ==
    /\ chatPc \in {"idle", "responded"}
    /\ chatResponse' = [status |-> "400", messages |-> <<>>, data |-> NoData,
                        trip |-> createEmptyTrip]
    /\ reqMessages' = <<>>
    /\ reqData' = NoData
    /\ reqTrip' = createEmptyTrip
    /\ gMessages' = <<>>
    /\ gTrip' = createEmptyTrip
    /\ gData' = NoData
    /\ gIntent' = Null
    /\ nodeRan' = "none"
    /\ nodeUpdate' = NoUpdate
    /\ calls' = NoCalls
    /\ turnRuns' = NoRuns
    /\ chatPc' = "responded"
    /\ UNCHANGED env
    /\ ChatFrame

\* classifyIntent: the model call is outside the try; JSON.parse failure gives
\* "unsupported"; parsed.intent is returned as it is
classifyIntent ==
    {[threw |-> TRUE, intent |-> Null]}
        \cup {[threw |-> FALSE, intent |-> "unsupported"]}
        \cup {[threw |-> FALSE, intent |-> i] : i \in ParsedIntents}

routerNode ==
    /\ chatPc = "router"
    /\ \E r \in classifyIntent :
          IF r.threw
          THEN /\ chatPc' = "raised"
               /\ UNCHANGED gIntent
          ELSE /\ chatPc' = "node"
               /\ gIntent' = r.intent
    /\ turnRuns' = [turnRuns EXCEPT !.router = @ + 1]
    /\ UNCHANGED <<env, reqMessages, reqData, reqTrip, gMessages, gTrip, gData, nodeRan,
                   nodeUpdate, calls, chatResponse>>
    /\ ChatFrame

\* the router of graph/nodes/router.ts, before the places agents were added
routeByIntentEarlier(intent) ==
    CASE intent = "arithmetic" -> "arithmeticAgent"
      [] intent = "flights" -> "flightAgent"
      [] OTHER -> "unsupportedNode"

\* the conditional edge out of the router
routeByIntent(intent) ==
    CASE intent = "arithmetic" -> "arithmeticAgent"
      [] intent = "flights" -> "flightAgent"
      [] intent = "hotel" -> "hotelAgent"
      [] intent = "restaurant" -> "restaurantAgent"
      [] intent = "activities" -> "activitiesAgent"
      [] intent = "nature" -> "natureAgent"
      [] intent = "selfie" -> "selfieAgent"
      [] OTHER -> "unsupportedNode"

\* .addNode(<name>, <node>): the names the compiled graph knows
RegisteredNodes ==
    {"router", "arithmeticAgent", "flightAgent", "hotelAgent", "restaurantAgent",
     "selfieAgent", "activityAgent", "natureAgent", "unsupportedNode"}

\* .addEdge(<node>, END) for every node
EdgeBackToRouter(name) == "router"
EdgeFromNode(name) == "end"

\* a node's return is applied to the state through the channels' reducers
NodeReturn(name, upd, made) ==
    /\ nodeRan' = name
    /\ nodeUpdate' = upd
    /\ calls' = made
    /\ turnRuns' = [turnRuns EXCEPT !.node = @ + 1]
    /\ IF upd.raised
       THEN /\ chatPc' = "raised"
            /\ UNCHANGED <<gMessages, gData>>
       ELSE /\ chatPc' = EdgeFromNode(name)
            /\ gMessages' = upd.messages
            /\ gData' = IF upd.hasData THEN DataReducer(gData, upd.data) ELSE gData
    /\ UNCHANGED <<env, reqMessages, reqData, reqTrip, gIntent, gTrip, chatResponse>>
    /\ ChatFrame

(***************************************************************************)
(* createReactAgent(...).invoke: library code, taken as one call that      *)
(* returns the input followed by the messages of its own tool loop, or     *)
(* rejects.  Of the tool messages of a run only the last ranges over every *)
(* kind of payload; the earlier ones carry "arrayB".                       *)
(***************************************************************************)
ToolTexts == {"arrayA", "emptyArray", "errorObject", "errorNoMessage", "object",
              "number", "null", "garbage"}
FinalTexts == {"reply", ""}
RoundShapes == UNION { [1..r -> 1..MaxCalls] : r \in 1..MaxRounds }

RECURSIVE RoundsMessages(_, _, _)
RoundsMessages(shape, i, last) ==
    IF i > Len(shape) THEN <<>>
    ELSE <<AiToolCalls(shape[i])>>
            \o [j \in 1..shape[i] |->
                    ToolMsg(IF i = Len(shape) /\ j = shape[i] THEN last ELSE "arrayB")]
            \o RoundsMessages(shape, i + 1, last)

ReactRuns ==
    {[threw |-> TRUE, new |-> <<>>]}
        \cup {[threw |-> FALSE, new |-> <<Ai(f)>>] : f \in FinalTexts}
        \cup {[threw |-> FALSE, new |-> Append(RoundsMessages(s, 1, l), Ai(f))] :
                s \in RoundShapes, l \in ToolTexts, f \in FinalTexts}

\* what a node did: its return value (or rejection) and the calls it made
Out(upd, made) == [upd |-> upd, made |-> made]

\* arithmeticNode: what it may do for state.messages = msgs
arithmeticNodeReturns(msgs) ==
    { LET result == msgs \o run.new
          toolsCalledThisTurn == hasToolOutput(run.new)
          value == extractLastToolJson(result)
          made == Calls("agent", 0, FALSE, FALSE)
      IN  IF run.threw THEN Out(NodeRaises, made)
          ELSE IF ~toolsCalledThisTurn THEN Out(Update(result), made)
          ELSE IF value.threw THEN Out(NodeRaises, made)
          ELSE Out(UpdateWithData(result,
                                  ResponseData("arithmetic", "", value.text, "")), made)
      : run \in ReactRuns }

arithmeticNode ==
    /\ chatPc = "node"
    /\ routeByIntent(gIntent) = "arithmeticAgent"
    /\ \E o \in arithmeticNodeReturns(gMessages) :
          NodeReturn("arithmeticAgent", o.upd, o.made)

\* flightData && !Array.isArray(flightData) && flightData.error === true
IsToolError(v) == ~v.isArray /\ v.error
\* flightData.message ?? "Something went wrong."
ToolErrorMessage(text) ==
    IF text = "errorObject" THEN "tool error message" ELSE "Something went wrong."
\* the negation of !Array.isArray(flightData) || flightData.length === 0
ValidFlightDataLoose(v) == v.isArray
ValidFlightData(v) == v.isArray /\ v.length # 0

\* summarizeFlights inside its own try: the summary, or the fixed fallback
FlightSummaries == {"summary", "Here are the flight options I found."}

flightNodeWithApi(msgs) ==
    UNION {
      LET result == msgs \o run.new
          toolsCalledThisTurn == hasToolOutput(run.new)
          flightData == extractLastToolJson(result)
          made == Calls("agent", 0, FALSE, FALSE)
      IN  IF run.threw THEN {Out(Update(Append(msgs, Ai(Apology))), made)}
          ELSE IF ~toolsCalledThisTurn THEN {Out(Update(result), made)}
          ELSE IF flightData.threw THEN {Out(Update(Append(result, Ai(Apology))), made)}
          ELSE IF IsToolError(flightData.value)
          THEN {Out(UpdateWithData(
                        Append(result, Ai(ToolErrorMessage(flightData.text))),
                        ResponseData("error", "", "", ToolErrorMessage(flightData.text))),
                    made)}
          ELSE IF ~ValidFlightData(flightData.value)
          THEN {Out(Update(Append(result, Ai(Apology))), made)}
          ELSE {Out(UpdateWithData(Append(result, Ai(summary)),
                                   ResponseData("flight", summary, flightData.text, "")),
                    Calls("agent", 0, FALSE, TRUE))
                  : summary \in FlightSummaries}
      : run \in ReactRuns }

\* the clarifying question: model.invoke outside any try
ClarifyAfterGenerator(msgs) ==
    { Out(NodeRaises, Calls("generator", 5, TRUE, FALSE)),
      Out(UpdateWithData(Append(msgs, Ai("question")),
                         ResponseData("hotel", "", "generated", "")),
          Calls("generator", 5, TRUE, FALSE)) }
Clarify(msgs) ==
    { Out(NodeRaises, Calls("none", 0, TRUE, FALSE)),
      Out(Update(Append(msgs, Ai("question"))), Calls("none", 0, TRUE, FALSE)) }

\* getMissingFields(trip).length > 0 in flightNode.ts
FlightFieldsMissing(trip) == ~trip.destination \/ ~trip.flightFields

FlightSorry == "Something went wrong finding flights. Please try again later."

\* the generator rejects, or summarizeFlights rejects, or both succeed
flightNodeWithGenerator(msgs, trip) ==
    IF FlightFieldsMissing(trip) THEN Clarify(msgs)
    ELSE { Out(Update(Append(msgs, Ai(FlightSorry))),
               Failed(GeneratorCalled("flight", trip, 5, FALSE), "source")),
           Out(Update(Append(msgs, Ai(FlightSorry))),
               Failed(GeneratorCalled("flight", trip, 5, TRUE), "summary")),
           Out(UpdateWithData(Append(msgs, Ai("summary")),
                              ResponseData("flight", "summary", "generated", "")),
               GeneratorCalled("flight", trip, 5, TRUE)) }

flightNode ==
    /\ chatPc = "node"
    /\ routeByIntent(gIntent) = "flightAgent"
    /\ \E o \in (IF useFlightApi THEN flightNodeWithApi(gMessages)
                 ELSE flightNodeWithGenerator(gMessages, gTrip)) :
          NodeReturn("flightAgent", o.upd, o.made)

\* a node that has the model word its answer
unsupportedNodeAsksModel(msgs) ==
    Out(Update(Append(msgs, Ai("reply"))), Calls("none", 0, TRUE, FALSE))
\* unsupportedNode: return { messages: [...state.messages, message] }
unsupportedNodeReturns(msgs) ==
    Out(Update(Append(msgs,
            Ai("I can only help with helping you plan a trip. What would you like to do?"))),
        NoCalls)

unsupportedNode ==
    /\ chatPc = "node"
    /\ routeByIntent(gIntent) = "unsupportedNode"
    /\ NodeReturn("unsupportedNode", unsupportedNodeReturns(gMessages).upd,
                  unsupportedNodeReturns(gMessages).made)

\* the nodes that recommend places.  After the clarifying question, inside the
\* try: the options come from searchNearbyPlaces or from the generator over
\* `templates` templates; the summary is written by the model when `summarize`,
\* else the message is `placeholder` and the summary is empty; any rejection
\* gives the node's apology `sorry` and no data
PlacesCatchKeepsOptions(msgs, type, options, sorry, made) ==
    Out(UpdateWithData(Append(msgs, Ai(sorry)), ResponseData(type, "", options, "")),
        made)
\* catch (error) { return { messages: [...state.messages, errorMessage] } }
PlacesCatch(msgs, type, options, sorry, made) ==
    Out(Update(Append(msgs, Ai(sorry))), made)

PlacesNode(msgs, trip, type, coords, templates, summarize, placeholder, sorry) ==
    IF ~trip.destination THEN Clarify(msgs)
    ELSE LET made(summarized) ==
                 IF coords # "none" THEN PlacesCall(type, coords, summarized)
                 ELSE GeneratorCalled(type, trip, templates, summarized)
             options == IF coords # "none" THEN "places" ELSE "generated"
         IN  {PlacesCatch(msgs, type, "", sorry, Failed(made(FALSE), "source"))}
                \cup (IF summarize
                      THEN { PlacesCatch(msgs, type, options, sorry,
                                         Failed(made(TRUE), "summary")),
                             Out(UpdateWithData(Append(msgs, Ai("summary")),
                                     ResponseData(type, "summary", options, "")),
                                 made(TRUE)) }
                      ELSE { Out(UpdateWithData(Append(msgs, Ai(placeholder)),
                                     ResponseData(type, "", options, "")),
                                 made(FALSE)) })

\* trip.hotelCoords, the coordinates the other places nodes use
HotelCoords(trip) == IF trip.hotelCoords THEN "hotel" ELSE "none"

\* the hotel's coordinates in place of the destination's
HotelCoordsForHotels(trip) == IF trip.hotelCoords THEN "hotel" ELSE "none"

\* Array.from({length: 10}, ...) when the places API is on and no coordinates
\* were found, Array.from({length: 5}, ...) when it is off
HotelTemplatesTenAlways == IF USE_PLACES_API THEN 10 ELSE 10
HotelTemplates == IF USE_PLACES_API THEN 10 ELSE 5

\* getDestinationCoords: trip.destinationCoords, else the coordinates of the
\* airport validateAirportCode finds for trip.destination, else null
getDestinationCoords(trip) ==
    IF trip.destinationCoords THEN "destination"
    ELSE IF ~trip.destination THEN "none"
    ELSE IF trip.airport THEN "airport"
    ELSE "none"

\* what `USE_PLACES_API && coords` leaves of the coordinates
IfPlacesApi(coords) == IF USE_PLACES_API THEN coords ELSE "none"

hotelNode ==
    /\ chatPc = "node"
    /\ routeByIntent(gIntent) = "hotelAgent"
    /\ \E o \in PlacesNode(gMessages, gTrip, "hotel",
                           IfPlacesApi(getDestinationCoords(gTrip)),
                           HotelTemplates, GENERATE_SUMMARIES,
                           "Here are your hotel recommendations.",
                           "Something went wrong finding hotels. Please try again later.") :
          NodeReturn("hotelAgent", o.upd, o.made)

restaurantNode ==
    /\ chatPc = "node"
    /\ routeByIntent(gIntent) = "restaurantAgent"
    /\ \E o \in PlacesNode(gMessages, gTrip, "restaurant",
                           IfPlacesApi(HotelCoords(gTrip)), 3, TRUE, "",
                           "Something went wrong finding restaurants. Please try again later.") :
          NodeReturn("restaurantAgent", o.upd, o.made)

selfieNode ==
    /\ chatPc = "node"
    /\ routeByIntent(gIntent) = "selfieAgent"
    /\ \E o \in PlacesNode(gMessages, gTrip, "selfie",
                           IfPlacesApi(HotelCoords(gTrip)), 5, GENERATE_SUMMARIES,
                           "Here are your selfie spot recommendations.",
                           "Something went wrong finding selfie spots. Please try again later.") :
          NodeReturn("selfieAgent", o.upd, o.made)

activityNode ==
    /\ chatPc = "node"
    /\ routeByIntent(gIntent) = "activitiesAgent"
    /\ \E o \in PlacesNode(gMessages, gTrip, "activities",
                           IfPlacesApi(HotelCoords(gTrip)), 10, GENERATE_SUMMARIES,
                           "Here are your activity recommendations.",
                           "Something went wrong finding activities. Please try again later.") :
          NodeReturn("activitiesAgent", o.upd, o.made)

natureNode ==
    /\ chatPc = "node"
    /\ routeByIntent(gIntent) = "natureAgent"
    /\ \E o \in PlacesNode(gMessages, gTrip, "nature",
                           IfPlacesApi(HotelCoords(gTrip)), 5, TRUE, "",
                           "Something went wrong finding nature activities. Please try again later.") :
          NodeReturn("natureAgent", o.upd, o.made)

\* toMessages: human and assistant messages only
RECURSIVE toMessages(_)
toMessages(msgs) ==
    IF msgs = <<>> THEN <<>>
    ELSE (IF Head(msgs).type \in {"human", "ai"} THEN <<Head(msgs)>> ELSE <<>>)
            \o toMessages(Tail(msgs))

\* content.trim(), for the texts of the model: " " is the text of white space
Trim(content) == IF content = " " THEN "" ELSE content

\* assistant messages are dropped only when their content is the empty string
RECURSIVE filterForClientUntrimmed(_)
filterForClientUntrimmed(msgs) ==
    IF msgs = <<>> THEN <<>>
    ELSE (IF Head(msgs).type = "ai" /\ Head(msgs).content = "" THEN <<>>
          ELSE <<Head(msgs)>>)
            \o filterForClientUntrimmed(Tail(msgs))

\* filterForClient: m.type === "ai" && (!m.content || m.content.trim() === "")
\* is dropped
RECURSIVE filterForClient(_)
filterForClient(msgs) ==
    IF msgs = <<>> THEN <<>>
    ELSE (IF Head(msgs).type = "ai"
             /\ (Head(msgs).content = "" \/ Trim(Head(msgs).content) = "")
          THEN <<>>
          ELSE <<Head(msgs)>>)
            \o filterForClient(Tail(msgs))

\* a fresh trip in place of the state's
ResponseTripEmptied(resultTrip, trip) == createEmptyTrip
\* trip: result.trip || trip || createEmptyTrip(); the state's trip is an
\* object, which is truthy whatever its fields hold
ResponseTrip(resultTrip, trip) == resultTrip

\* res.json({messages, data: result.data || null, trip})
Respond ==
    /\ chatPc = "end"
    /\ chatResponse' = [status |-> "200",
                    messages |-> filterForClient(toMessages(gMessages)),
                    data |-> gData,
                    trip |-> ResponseTrip(gTrip, reqTrip)]
    /\ chatPc' = "responded"
    /\ UNCHANGED <<env, reqMessages, reqData, reqTrip, gMessages, gIntent, gTrip, gData, nodeRan,
                   nodeUpdate, calls, turnRuns>>
    /\ ChatFrame

\* graph.invoke rejected: catch -> res.status(500)
RespondError ==
    /\ chatPc = "raised"
    /\ chatResponse' = [status |-> "500", messages |-> <<>>, data |-> NoData,
                        trip |-> createEmptyTrip]
    /\ chatPc' = "responded"
    /\ UNCHANGED <<env, reqMessages, reqData, reqTrip, gMessages, gIntent, gTrip, gData, nodeRan,
                   nodeUpdate, calls, turnRuns>>
    /\ ChatFrame

(***************************************************************************)
(* The tips pipeline  (graph/nodes/tips/tipsNode.ts: generateTips)         *)
(*                                                                         *)
(* A step ends at each await.  A text is a sequence of words, <<>> the     *)
(* empty text.  `tips` holds the position (pc), the locals of the call and *)
(* its outcome; `reached` and `fetches` are history.                       *)
(***************************************************************************)
MaxClassified == 3
MaxTipsItems == 1

Categories == {"transportation", "safety", "whenToVisit"}

\* fetchWikipediaSections: the table of contents, [] on failure
TocChoices ==
    { <<>>,
      << [index |-> "1", line |-> "Transport"], [index |-> "2", line |-> "Crime"],
         [index |-> "3", line |-> "Climate"], [index |-> "4", line |-> "History"] >> }

\* what the classifier may answer: sections with a category, or with something
\* that is none of the three
ClassifiedChoices ==
    { [index |-> "1", line |-> "Transport", category |-> "transportation"],
      [index |-> "2", line |-> "Crime", category |-> "safety"],
      [index |-> "3", line |-> "Climate", category |-> "whenToVisit"],
      [index |-> "4", line |-> "History", category |-> "history"] }

\* fetchWikipediaSectionContent(pageId, index): the stripped text of that
\* section, "" on failure
SectionText(index) == <<"section", index>>
SectionContents(index) == {<<>>, SectionText(index)}

\* fetchWikipediaFullExtract: the extract, null on failure
NoText == <<Null>>
FullExtracts == {NoText, <<"extract">>}

EmptyGrouped == [c \in Categories |-> <<>>]

\* for (const entry of sectionContents)
\*   if (entry.content.trim().length > 0) grouped[entry.category].push(entry.content)
\* [threw, grouped]: grouped[entry.category] is undefined for any other category
RECURSIVE GroupFrom(_, _)
GroupFrom(sectionContents, grouped) ==
    IF sectionContents = <<>> THEN [threw |-> FALSE, grouped |-> grouped]
    ELSE LET entry == Head(sectionContents)
         IN  IF entry.content = <<>> THEN GroupFrom(Tail(sectionContents), grouped)
             ELSE IF entry.category \notin Categories
             THEN [threw |-> TRUE, grouped |-> grouped]
             ELSE GroupFrom(Tail(sectionContents),
                            [grouped EXCEPT ![entry.category] = Append(@, entry.content)])
Group(sectionContents) == GroupFrom(sectionContents, EmptyGrouped)

\* const needsFullExtract = ... .length === 0 || ... || ...
NeedsFullExtract(grouped) == \E c \in Categories : grouped[c] = <<>>

\* if (grouped.x.length === 0) grouped.x = [fullText], for each of the three
BackfillEvery(bucket, fullText) == <<fullText>>
Backfill(bucket, fullText) == IF bucket = <<>> THEN <<fullText>> ELSE bucket

\* analyzeTips: the source material of a category, or the note that there is none
SourceMaterial(bucket) ==
    IF Len(bucket) > 0 THEN bucket ELSE << <<"(No specific Wikipedia content found)">> >>

\* what the model may answer analyzeTips: invoke rejects, text that is no JSON,
\* JSON null, an object with the three tips, an object without them
AnalyzeAnswers == {"invokeFailed", "garbage", "null", "complete", "empty"}

\* analyzeTips(grouped, trip): [threw, tips]
analyzeTips(grouped, answer) ==
    IF answer \in {"invokeFailed", "garbage", "null"}
    THEN [threw |-> TRUE, tips |-> <<>>]
    ELSE LET tip == IF answer = "complete" THEN "tip" ELSE Undefined
         IN  [threw |-> FALSE,
              tips |-> << [id |-> "a", transportTips |-> tip, safetyTips |-> tip,
                           whenToVisitTips |-> tip] >>]

\* createTipsTemplate() in the generator's terms: an id, the tips (the field
\* "name") null
createTipsTemplate == [f \in Fields |-> IF f = "id" THEN "a" ELSE Null]

\* what the model may answer the generator here: invoke rejects, text that is
\* no JSON, or an array of objects with the tips filled in, left null, or of
\* elements that are no objects
TipsItems ==
    { [isObject |-> TRUE, fields |-> [f \in Fields |-> "x"]],
      [isObject |-> TRUE, fields |-> [f \in Fields |-> IF f = "id" THEN "x" ELSE Null]],
      NonObject }
TipsResponses ==
    {InvokeFailed}
        \cup {[failed |-> FALSE, fenced |-> FALSE, body |-> Garbage]}
        \cup {[failed |-> FALSE, fenced |-> FALSE,
               body |-> [valid |-> TRUE, isArray |-> TRUE, items |-> is]] :
                 is \in SeqsUpTo(TipsItems, MaxTipsItems)}

\* generateTipsWithGenerator(trip): generator({data: [createTipsTemplate()], ...})
generateTipsWithGenerator(response) ==
    generator([isArray |-> TRUE, value |-> <<createTipsTemplate>>], response)

TipsIdle ==
    [pc |-> "idle", city |-> FALSE, pageId |-> Null, sections |-> <<>>,
     classified |-> <<>>, sectionContents |-> <<>>, before |-> EmptyGrouped,
     grouped |-> EmptyGrouped, fullText |-> NoText, fetches |-> 0,
     prompt |-> EmptyGrouped, reached |-> {}, caught |-> FALSE,
     result |-> [status |-> "none", via |-> "none", tips |-> <<>>]]

TipsInit == tips = TipsIdle

\* the step reached `stage` and goes on at `pc`
TipsAt(t, stage, pc) == [t EXCEPT !.pc = pc, !.reached = @ \cup {stage}]
\* catch (error) { return generateTipsWithGenerator(trip) }
TipsCatch(t, stage) == [TipsAt(t, stage, "generator") EXCEPT !.caught = TRUE]

\* if (!trip.city) return generateTipsWithGenerator(trip)
TipsStart ==
    /\ tips.pc = "idle"
    /\ \E city \in BOOLEAN :
          tips' = [tips EXCEPT !.city = city,
                               !.pc = IF city THEN "search" ELSE "generator"]
    /\ TipsFrame

\* pageId = await searchWikipediaPageId(trip.city); null when nothing is found,
\* a rejection when the city cannot be encoded
TipsSearch ==
    /\ tips.pc = "search"
    /\ \/ \E pageId \in {Null, "page"} :
             tips' = [TipsAt(tips, "search", IF pageId = Null THEN "generator" ELSE "toc")
                        EXCEPT !.pageId = pageId]
       \/ tips' = TipsCatch(tips, "search")
    /\ TipsFrame

\* sections = await fetchWikipediaSections(pageId)
TipsSections ==
    /\ tips.pc = "toc"
    /\ \E sections \in TocChoices :
          tips' = [TipsAt(tips, "toc", IF Len(sections) = 0 THEN "generator" ELSE "classify")
                     EXCEPT !.sections = sections]
    /\ TipsFrame

\* classified = await classifySections(sections, trip.city): the array the
\* model answered, [] when its answer is no JSON array, a rejection when
\* model.invoke rejects
TipsClassify ==
    /\ tips.pc = "classify"
    /\ \/ \E classified \in SeqsUpTo(ClassifiedChoices, MaxClassified) :
             tips' = [TipsAt(tips, "classify", "fetch") EXCEPT !.classified = classified]
       \/ tips' = TipsCatch(tips, "classify")
    /\ TipsFrame

\* Promise.all(classified.map(async (section) => ({...section, content}))), then
\* the grouping and the needsFullExtract test
TipsFetch ==
    /\ tips.pc = "fetch"
    /\ \E contents \in [1..Len(tips.classified) -> {TRUE, FALSE}] :
          LET sectionContents ==
                  [i \in 1..Len(tips.classified) |->
                      [index |-> tips.classified[i].index,
                       line |-> tips.classified[i].line,
                       category |-> tips.classified[i].category,
                       content |-> IF contents[i]
                                   THEN SectionText(tips.classified[i].index)
                                   ELSE <<>>]]
              g == Group(sectionContents)
          IN  tips' =
                IF g.threw
                THEN [TipsCatch(tips, "fetch") EXCEPT !.sectionContents = sectionContents]
                ELSE [TipsAt(tips, "fetch",
                             IF NeedsFullExtract(g.grouped) THEN "extract" ELSE "analyze")
                        EXCEPT !.sectionContents = sectionContents,
                               !.before = g.grouped, !.grouped = g.grouped]
    /\ TipsFrame

\* fullText = await fetchWikipediaFullExtract(pageId), and the backfill
TipsFullExtract ==
    /\ tips.pc = "extract"
    /\ \E fullText \in FullExtracts :
          tips' = [TipsAt(tips, "extract", "analyze")
                     EXCEPT !.fullText = fullText,
                            !.fetches = @ + 1,
                            !.grouped = IF fullText # NoText
                                        THEN [c \in Categories |->
                                                 Backfill(tips.grouped[c], fullText)]
                                        ELSE tips.grouped]
    /\ TipsFrame

\* tips = await analyzeTips(grouped, trip); return [tips]
TipsAnalyze ==
    /\ tips.pc = "analyze"
    /\ \E answer \in AnalyzeAnswers :
          LET r == analyzeTips(tips.grouped, answer)
              prompt == [c \in Categories |-> SourceMaterial(tips.grouped[c])]
          IN  tips' =
                IF r.threw
                THEN [TipsCatch(tips, "analyze") EXCEPT !.prompt = prompt]
                ELSE [TipsAt(tips, "analyze", "done")
                        EXCEPT !.prompt = prompt,
                               !.result = [status |-> "returned", via |-> "analyzeTips",
                                           tips |-> r.tips]]
    /\ TipsFrame

\* return generateTipsWithGenerator(trip): whatever the generator resolves to,
\* or its rejection
TipsGenerator ==
    /\ tips.pc = "generator"
    /\ \E response \in TipsResponses :
          LET r == generateTipsWithGenerator(response)
          IN  tips' =
                IF r.threw
                THEN [tips EXCEPT !.pc = "raised",
                                  !.result = [status |-> "threw", via |-> "generator",
                                              tips |-> <<>>]]
                ELSE [tips EXCEPT !.pc = "done",
                                  !.result = [status |-> "returned", via |-> "generator",
                                              tips |-> r.out]]
    /\ TipsFrame

(***************************************************************************)
(* The two fan-outs, taken one settlement at a time:                       *)
(*   "tools"     Promise.all(modelResponse.tool_calls.map(callTool))       *)
(*   "sections"  Promise.all(classified.map(async (section) => ...))       *)
(* Every call is started at once; the calls settle in any order; the       *)
(* array Promise.all resolves to holds the value of the i-th promise at    *)
(* index i.  A slot is <<>> until its promise is fulfilled, then <<value>>.*)
(***************************************************************************)
ToolNames == {"add", "findCheapestFlights", "bogus"}

\* callTool(toolCall): the ToolMessage tool.invoke answers with, a rejection
\* for a name that is not in flightToolsByName
callTool(toolCall) ==
    IF toolCall.name = "bogus"
    THEN [threw |-> TRUE, tool_call_id |-> toolCall.id, content |-> ""]
    ELSE [threw |-> FALSE, tool_call_id |-> toolCall.id,
          content |-> IF toolCall.name = "add" THEN "number" ELSE "arrayA"]

\* modelResponse.tool_calls: each call has an id of its own
ToolCallLists ==
    UNION { { [i \in 1..n |-> [id |-> i, name |-> names[i]]] : names \in [1..n -> ToolNames] }
            : n \in 1..MaxCalls }

\* where the value of the i-th promise goes, `settled` promises having been
\* fulfilled before it
SlotByCompletion(i, settled) == settled + 1
SlotOf(i, settled) == i

FanIdle ==
    [pc |-> "idle", kind |-> "none", requests |-> <<>>, slots |-> <<>>, order |-> <<>>,
     result |-> <<>>]

FanInit == fan = FanIdle

FanPending == {i \in 1..Len(fan.requests) : \A k \in 1..Len(fan.order) : fan.order[k] # i}

FanStart(kind, requests) ==
    fan' = [pc |-> "pending", kind |-> kind, requests |-> requests,
            slots |-> [i \in 1..Len(requests) |-> <<>>], order |-> <<>>,
            result |-> <<>>]

\* modelResponse.tool_calls.map(callTool)
FanStartTools ==
    /\ fan.pc = "idle"
    /\ \E toolCalls \in ToolCallLists : FanStart("tools", toolCalls)
    /\ FanFrame

\* classified.map(async (section) => ...)
FanStartSections ==
    /\ fan.pc = "idle"
    /\ \E classified \in SeqsUpTo(ClassifiedChoices, MaxClassified) :
          FanStart("sections", classified)
    /\ FanFrame

FanFulfil(i, value) ==
    fan' = [fan EXCEPT !.slots[SlotOf(i, Len(fan.order))] = <<value>>,
                       !.order = Append(@, i)]

\* one tool call settles: its ToolMessage, or the rejection of the whole
\* Promise.all
FanToolSettles(i) ==
    /\ fan.pc = "pending"
    /\ fan.kind = "tools"
    /\ i \in FanPending
    /\ LET r == callTool(fan.requests[i])
       IN  IF r.threw
           THEN fan' = [fan EXCEPT !.pc = "rejected", !.order = Append(@, i)]
           ELSE FanFulfil(i, [tool_call_id |-> r.tool_call_id, content |-> r.content])
    /\ FanFrame

\* one section fetch settles: return { ...section, content }
FanSectionSettles(i) ==
    /\ fan.pc = "pending"
    /\ fan.kind = "sections"
    /\ i \in FanPending
    /\ \E content \in SectionContents(fan.requests[i].index) :
          FanFulfil(i, [index |-> fan.requests[i].index, line |-> fan.requests[i].line,
                        category |-> fan.requests[i].category, content |-> content])
    /\ FanFrame

\* every promise is fulfilled: the await yields the array
FanResolves ==
    /\ fan.pc = "pending"
    /\ FanPending = {}
    /\ fan' = [fan EXCEPT !.pc = "done",
                          !.result = [i \in 1..Len(fan.slots) |-> fan.slots[i][1]]]
    /\ FanFrame

(***************************************************************************)
(* The process from its start: the modules are loaded (each node module    *)
(* calls loadModel(tier) at its top level), the server listens, requests   *)
(* are served.  A flight search reads the Amadeus credentials when it      *)
(* fetches a token.                                                        *)
(***************************************************************************)
MaxRequests == 2

Tiers == {"fast", "standard", "smart"}

\* <TIER>_MODEL_COMPANY and <TIER>_MODEL_NAME of each tier, and whether the
\* three AMADEUS_* variables are all set
BootEnvs ==
    [models : [Tiers -> [company : {Undefined, "OpenAI", "Acme"}, name : {Undefined, "m"}]],
     amadeus : BOOLEAN]

\* loadModel(tier): TRUE when it throws
loadModelThrows(e, tier) ==
    \/ e.models[tier].company = Undefined \/ e.models[tier].name = Undefined
    \/ e.models[tier].company \notin {"OpenAI", "GoogleGemini", "Ollama"}

\* fetchAmadeusToken: if (!clientId || !clientSecret || !grantType) throw
fetchAmadeusTokenThrows(e) == ~e.amadeus

BootOff ==
    [pc |-> "off",
     env |-> [models |-> [t \in Tiers |-> [company |-> Undefined, name |-> Undefined]],
              amadeus |-> FALSE],
     loaded |-> {}, requests |-> 0, configError |-> "none"]

BootInit == boot = BootOff

\* import "dotenv/config"
BootStart ==
    /\ boot.pc = "off"
    /\ \E e \in BootEnvs : boot' = [boot EXCEPT !.pc = "loading", !.env = e]
    /\ BootFrame

\* const model = loadModel(tier) at the top of a module
BootLoadModel(tier) ==
    /\ boot.pc = "loading"
    /\ tier \notin boot.loaded
    /\ boot' = IF loadModelThrows(boot.env, tier)
               THEN [boot EXCEPT !.pc = "crashed", !.configError = "startup"]
               ELSE [boot EXCEPT !.loaded = @ \cup {tier}]
    /\ BootFrame

\* app.listen(PORT)
BootListen ==
    /\ boot.pc = "loading"
    /\ boot.loaded = Tiers
    /\ boot' = [boot EXCEPT !.pc = "listening"]
    /\ BootFrame

\* a request whose flight search calls getAmadeusToken with nothing cached
BootFlightRequest ==
    /\ boot.pc = "listening"
    /\ boot.requests < MaxRequests
    /\ boot' = [boot EXCEPT !.requests = @ + 1,
                            !.configError = IF fetchAmadeusTokenThrows(boot.env)
                                            THEN "request" ELSE @]
    /\ BootFrame

(***************************************************************************)
(* The flight search tool  (tools/travel/searchFlights.ts)                 *)
(*                                                                         *)
(* One call: the token, the request to the provider, then the loop over    *)
(* rawData.data, one step per offer.  allFlightResults holds references    *)
(* (positions in `objects`) to the FlightResults objects the loop made, as *)
(* the array in the code holds the objects themselves; JSON.stringify      *)
(* writes each entry out with the content its object has at the end.       *)
(***************************************************************************)
MaxOffers == 2

CarrierCodes == {"AA", "ZZ"}
\* carrierMap[carrierCode] ?? carrierCode: the dictionary knows some carriers
AirlineName(carrierCode) ==
    IF carrierCode = "AA" THEN "AMERICAN AIRLINES" ELSE carrierCode

\* a flight offer of the provider: its price and the carriers of the segment
\* of its outbound and of its return itinerary
Offers == [total : {100, 200}, outbound : CarrierCodes, return : CarrierCodes]
\* rawData.data
OfferLists == SeqsUpTo(Offers, MaxOffers)
\* getAmadeusToken rejects, the provider answers non-OK, or it answers OK
FetchOutcomes == {"tokenThrew", "notOk", "ok"}

FlightLeg(direction, carrierCode) ==
    [direction |-> direction, airline |-> AirlineName(carrierCode)]

\* flightResults = {id: nanoid(), price: 0, currency: "", legs: []} with the
\* price set
NewFlightResults(id, offer) == [id |-> id, price |-> offer.total, legs |-> <<>>]

\* flightResults.legs.push(leg)
PushLeg(flightResults, leg) == [flightResults EXCEPT !.legs = Append(@, leg)]

\* the body of `for (const offer of rawData.data)`: the object is pushed to
\* allFlightResults after its outbound leg and again after its return leg
OfferBody(s, offer) ==
    LET ref == Len(s.objects) + 1
        made == NewFlightResults(nanoid(ref), offer)
        withOutbound == PushLeg(made, FlightLeg("outbound", offer.outbound))
        afterOutbound == Append(s.allFlightResults, ref)
        withReturn == PushLeg(withOutbound, FlightLeg("return", offer.return))
        afterReturn == Append(afterOutbound, ref)
    IN  [s EXCEPT !.objects = Append(@, withReturn),
                  !.allFlightResults = afterReturn,
                  !.k = @ + 1]

\* JSON.stringify(allFlightResults)
Stringify(s) == [i \in 1..Len(s.allFlightResults) |-> s.objects[s.allFlightResults[i]]]

SearchIdle ==
    [pc |-> "idle", rawData |-> <<>>, k |-> 0, objects |-> <<>>,
     allFlightResults |-> <<>>, out |-> <<>>]

SearchInit == search = SearchIdle

\* await getAmadeusToken(); await fetch(url); if (!response.ok) throw;
\* rawData = await response.json()
SearchFlightsFetch ==
    /\ search.pc = "idle"
    /\ \E outcome \in FetchOutcomes, data \in OfferLists :
          search' = IF outcome = "ok"
                    THEN [search EXCEPT !.pc = "loop", !.rawData = data]
                    ELSE [search EXCEPT !.pc = "threw"]
    /\ SearchFrame

\* one pass of the loop over the offers
SearchFlightsOffer ==
    /\ search.pc = "loop"
    /\ search.k < Len(search.rawData)
    /\ search' = OfferBody(search, search.rawData[search.k + 1])
    /\ SearchFrame

\* return JSON.stringify(allFlightResults)
SearchFlightsReturn ==
    /\ search.pc = "loop"
    /\ search.k = Len(search.rawData)
    /\ search' = [search EXCEPT !.pc = "returned", !.out = Stringify(search)]
    /\ SearchFrame

(***************************************************************************)
(* Specifications.                                                         *)
(***************************************************************************)
GenNext == GeneratorCall
Init ==
    /\ GenInit /\ TokenInit /\ LoopInit /\ ChatInit /\ TipsInit /\ FanInit /\ BootInit
    /\ SearchInit

GenSpec == Init /\ [][GenNext]_vars

TokenNext ==
    \/ \E c \in Callers : GetTokenHit(c)
    \/ \E c \in Callers : GetTokenMiss(c)
    \/ \E c \in Callers : ExchangeOk(c)
    \/ \E c \in Callers : ExchangeFail(c)
    \/ Tick
TokenSpec == Init /\ [][TokenNext]_vars

LoopNext ==
    \/ LoopStart
    \/ LlmFinal
    \/ LlmToolCalls
    \/ LlmThrows
    \/ ToolsReturn
    \/ ToolsThrow
    \/ LoopPost
LoopSpec == Init /\ [][LoopNext]_vars

Next ==
    \/ LoadEnv
    \/ ChatRequest
    \/ ChatBadRequest
    \/ routerNode
    \/ arithmeticNode
    \/ flightNode
    \/ hotelNode
    \/ restaurantNode
    \/ selfieNode
    \/ activityNode
    \/ natureNode
    \/ unsupportedNode
    \/ Respond
    \/ RespondError
Spec == Init /\ [][Next]_vars

TipsNext ==
    \/ TipsStart
    \/ TipsSearch
    \/ TipsSections
    \/ TipsClassify
    \/ TipsFetch
    \/ TipsFullExtract
    \/ TipsAnalyze
    \/ TipsGenerator
TipsSpec == Init /\ [][TipsNext]_vars

FanNext ==
    \/ FanStartTools
    \/ FanStartSections
    \/ \E i \in 1..Len(fan.requests) : FanToolSettles(i)
    \/ \E i \in 1..Len(fan.requests) : FanSectionSettles(i)
    \/ FanResolves
FanSpec == Init /\ [][FanNext]_vars

BootNext ==
    \/ BootStart
    \/ \E tier \in Tiers : BootLoadModel(tier)
    \/ BootListen
    \/ BootFlightRequest
BootSpec == Init /\ [][BootNext]_vars

SearchNext ==
    \/ SearchFlightsFetch
    \/ SearchFlightsOffer
    \/ SearchFlightsReturn
SearchSpec == Init /\ [][SearchNext]_vars

(***************************************************************************)
(* Claims about the generator (GenSpec).                                   *)
(***************************************************************************)
GenTemplates == Normalize(genData)
GenParsed == AsArray(ParseResponse(genResponse).value)

\* C1: every returned element that has a corresponding input template keeps
\* every field that is non-null in that template, whatever the model answered
\* for the field.
C1_FieldPreservation ==
    genPc = "returned" =>
        \A i \in 1..Len(genOut) :
            i <= Len(GenTemplates) =>
                \A f \in Fields :
                    GenTemplates[i][f] # Null => genOut[i][f] = GenTemplates[i][f]

\* C1 witness: a call returned although the model changed a known field of the
\* second template.
C1_Witness ==
    /\ genPc = "returned"
    /\ Len(GenTemplates) >= 2
    /\ Len(genOut) >= 2
    /\ GenTemplates[2]["name"] = "n"
    /\ Spread(GenParsed[2])["name"] = "x"
    /\ Spread(GenParsed[2])["id"] = "x"

\* C2 (as claimed): the returned array is as long as the normalized input,
\* however many elements the model returned.
C2_SameLength ==
    genPc = "returned" => Len(genOut) = Len(GenTemplates)

(***************************************************************************)
(* Claims about the token cache (TokenSpec).                               *)
(***************************************************************************)
\* C9: under every interleaving of overlapping getAmadeusToken calls the stored
\* token and the stored expiry come from the same exchange, and what a call
\* returns is a token issued by a completed exchange.
C9_CacheNeverTorn ==
    /\ cachedToken = expirySrc
    /\ cachedToken # 0 =>
          /\ cachedToken \in 1..exchanges
          /\ tokenExpiresAt = issued[cachedToken] - BUFFER_MS
    /\ lastReturn.path \in {"hit", "refresh"} =>
          /\ lastReturn.token \in 1..exchanges
          /\ issued[lastReturn.token] # 0

\* C9 witness: a refresh that overlapped another refresh completed as a second
\* (redundant) exchange.
C9_Witness ==
    /\ lastReturn.path = "refresh"
    /\ lastReturn.overlapped
    /\ exchanges >= 2
    /\ lastReturn.token = exchanges

\* C10 (as claimed): every returned token, on either path, is returned earlier
\* than its own expiry minus the buffer.
C10_ReturnedBeforeBufferedExpiry ==
    lastReturn.path \in {"hit", "refresh"} =>
        lastReturn.at < issued[lastReturn.token] - BUFFER_MS

\* C10 (amended): a token returned on the cache-hit path is returned earlier than
\* its own expiry minus the buffer; a token returned on the refresh path is so
\* whenever the exchange answered expires_in * 1000 > BUFFER_MS.
C10_Amended ==
    /\ lastReturn.path = "hit" =>
          lastReturn.at < issued[lastReturn.token] - BUFFER_MS
    /\ (lastReturn.path = "refresh" /\ lastReturn.expiresIn * 1000 > BUFFER_MS) =>
          lastReturn.at < issued[lastReturn.token] - BUFFER_MS

\* C10 witness: a cache hit at the last moment the cached token counts as valid.
C10_Witness ==
    /\ lastReturn.path = "hit"
    /\ lastReturn.at + TickMs = issued[lastReturn.token] - BUFFER_MS
    /\ lastReturn.at = now

\* C11: a getAmadeusToken call made while a token is cached and now is before
\* tokenExpiresAt starts no exchange, and when the call that ended before it was
\* a cache hit too, both return the same token.
C11_SecondCallHitsCache ==
    /\ [](lastReturn.path = "hit" /\ prevHit # 0 => lastReturn.token = prevHit)
    /\ [][(cachedToken # 0 /\ now < tokenExpiresAt) =>
            /\ \A c \in Callers : callers[c].pc = "idle" => callers'[c].pc = "idle"
            /\ lastReturn'.path = "hit" => exchanges' = exchanges]_vars

\* C11 witness: two calls in a row were served from the cache, the second a
\* minute or more after the token was issued.
C11_Witness ==
    /\ lastReturn.path = "hit"
    /\ prevHit = lastReturn.token
    /\ lastReturn.at > StartMs

\* C12: a getAmadeusToken call made while no token is cached or now is not before
\* tokenExpiresAt is not served from the cache; when its exchange answers, that
\* is one more exchange, and the call stores the new token with the expiry
\* now + expires_in * 1000 - 5 minutes and returns that token.
C12_MissRefreshesOnce ==
    /\ [](lastReturn.path = "refresh" =>
            /\ lastReturn.token = exchanges
            /\ cachedToken = lastReturn.token
            /\ tokenExpiresAt = lastReturn.at + lastReturn.expiresIn * 1000 - 5 * 60 * 1000)
    /\ [][/\ ~(cachedToken # 0 /\ now < tokenExpiresAt) =>
               (lastReturn'.path = "hit" => lastReturn' = lastReturn)
           /\ \A c \in Callers :
                (callers[c].pc = "fetching" /\ callers'[c].pc = "idle"
                    /\ lastReturn'.path = "refresh") => exchanges' = exchanges + 1]_vars

\* C12 witness: a call that overlapped no other found the first token no longer
\* valid and ended with the second exchange.
C12_Witness ==
    /\ lastReturn.path = "refresh"
    /\ ~lastReturn.overlapped
    /\ exchanges = 2
    /\ cachedToken = 2

(***************************************************************************)
(* Claims about the hand-written tool loops (LoopSpec).                    *)
(***************************************************************************)
\* C5 (as claimed): the tool loop is bounded by a fixed maximum number of
\* iterations, whatever the model does.  The loops have no counter and no
\* limit, so whatever maximum below the explored horizon is chosen, a model
\* that keeps requesting tools is served beyond it: here the maximum is the
\* horizon less one.
C5_LoopIsCapped ==
    loopIters <= LoopBound - 1

\* C6 (as claimed): when the model's first reply of the turn carries no tool
\* call, the flight agent's output has no data and the clarification it returns
\* is that reply, whatever tool messages earlier turns left in the history.
C6_NoToolCallNoData ==
    (/\ loopPc = "done"
     /\ loopAgent \in {"flight", "flightLegacy"}
     /\ loopIters = 0
     /\ Len(loopMessages) = Len(loopInput) + 1)
        => /\ loopResult.kind = "clarification"
           /\ loopResult.data = ""
           /\ loopResult.text = loopMessages[Len(loopMessages)].content

\* the messages a run has added to its input
LoopNew == SubSeq(loopMessages, Len(loopInput) + 1, Len(loopMessages))

\* msgs is a sequence of served rounds: each an assistant message with k >= 1
\* tool calls followed directly by exactly k tool messages
RECURSIVE ServedRounds(_)
ServedRounds(msgs) ==
    IF msgs = <<>> THEN TRUE
    ELSE LET k == Head(msgs).calls
         IN  /\ Head(msgs).type = "ai"
             /\ k >= 1
             /\ Len(msgs) >= k + 1
             /\ \A j \in 2..(k + 1) : msgs[j].type = "tool"
             /\ ServedRounds(SubSeq(msgs, k + 2, Len(msgs)))

\* C29: whenever the model is about to be invoked, every response with k >= 1
\* tool calls this run has recorded is followed directly by exactly k tool
\* results, then by the next response; while the tools of a response run, that
\* response is the last message; and the run leaves the loop with the served
\* rounds followed by the one response without tool calls.
C29_AllToolResultsBeforeNextCall ==
    /\ loopPc = "callLlm" => ServedRounds(LoopNew)
    /\ loopPc = "callTools" =>
          /\ loopPending >= 1
          /\ LoopNew # <<>>
          /\ loopMessages[Len(loopMessages)].type = "ai"
          /\ loopMessages[Len(loopMessages)].calls = loopPending
          /\ ServedRounds(SubSeq(LoopNew, 1, Len(LoopNew) - 1))
    /\ loopPc = "post" =>
          /\ LoopNew # <<>>
          /\ loopMessages[Len(loopMessages)].type = "ai"
          /\ loopMessages[Len(loopMessages)].calls = 0
          /\ ServedRounds(SubSeq(LoopNew, 1, Len(LoopNew) - 1))
\* C29 witness: the legacy flight loop is about to invoke the model again after
\* a response with two tool calls, both results standing behind it
C29_Witness ==
    /\ loopPc = "callLlm"
    /\ loopAgent = "flightLegacy"
    /\ loopIters >= 1
    /\ Len(LoopNew) >= 3
    /\ loopMessages[Len(loopMessages) - 2].type = "ai"
    /\ loopMessages[Len(loopMessages) - 2].calls = 2
    /\ loopMessages[Len(loopMessages) - 1].type = "tool"
    /\ loopMessages[Len(loopMessages)].type = "tool"

(***************************************************************************)
(* Claims about a /chat turn (Spec).                                       *)
(***************************************************************************)
\* the messages the node added in this turn
TurnMessages ==
    SubSeq(nodeUpdate.messages, Len(reqMessages) + 1, Len(nodeUpdate.messages))
TurnToolIndexes == {i \in 1..Len(TurnMessages) : TurnMessages[i].type = "tool"}
\* the text of the last tool message of the turn
TurnLastToolText ==
    TurnMessages[CHOOSE i \in TurnToolIndexes : \A j \in TurnToolIndexes : j <= i].content
TurnLastMessage == nodeUpdate.messages[Len(nodeUpdate.messages)]
\* flightNodeWithApi returned after a run that called a tool
FlightToolTurn ==
    /\ nodeRan = "flightAgent"
    /\ useFlightApi
    /\ ~nodeUpdate.raised
    /\ TurnToolIndexes # {}

\* C3 (as claimed): whatever fails inside a domain node, the node returns an
\* update and does not raise.
C3_NodesNeverRaise ==
    nodeRan \in {"arithmeticAgent", "flightAgent", "hotelAgent", "restaurantAgent",
                 "activitiesAgent", "natureAgent", "selfieAgent"}
        => ~nodeUpdate.raised

\* C4 (as claimed): after a turn whose node returned, the data of the resulting
\* state and of the response is what that node set, or null if it set none.
C4_DataIsThisTurns ==
    chatPc \in {"end", "responded"} /\ nodeRan # "none" /\ ~nodeUpdate.raised =>
        /\ gData = (IF nodeUpdate.hasData THEN nodeUpdate.data ELSE NoData)
        /\ chatPc = "responded" => chatResponse.data = gData

\* C4 (amended): after a turn whose node returned, the data of the resulting
\* state and of the response is what that node set; if it set none, it is the
\* data the request carried (null if it carried none).
C4_Amended ==
    chatPc \in {"end", "responded"} /\ nodeRan # "none" /\ ~nodeUpdate.raised =>
        /\ gData = (IF nodeUpdate.hasData THEN nodeUpdate.data ELSE reqData)
        /\ chatPc = "responded" => chatResponse.data = gData

\* C4 witness: a request that carried the data of an earlier hotel turn was
\* answered by a node that set data of its own.
C4_Witness ==
    /\ chatPc = "responded"
    /\ reqData.type = "hotel"
    /\ nodeUpdate.hasData
    /\ nodeUpdate.data.type = "arithmetic"
    /\ chatResponse.data = nodeUpdate.data

\* C7: when the flight agent called a tool in this turn and the payload of the
\* last tool message is a non-empty array, the node sets data of type "flight"
\* whose options are the payload of that last tool message.
C7_LastToolPayloadIsData ==
    (FlightToolTurn /\ TurnLastToolText \in {"arrayA", "arrayB"}) =>
        /\ nodeUpdate.hasData
        /\ nodeUpdate.data.type = "flight"
        /\ nodeUpdate.data.options = TurnLastToolText
        /\ gData = nodeUpdate.data

\* C7 witness: the turn's first tool message carried one array, its last tool
\* message another, and the data holds the last.
C7_Witness ==
    /\ FlightToolTurn
    /\ Cardinality(TurnToolIndexes) >= 2
    /\ \E i \in TurnToolIndexes : TurnMessages[i].content = "arrayB"
    /\ TurnLastToolText = "arrayA"
    /\ nodeUpdate.data.options = "arrayA"

C13_IntentIsAlwaysValid ==
    chatPc = "node" \/ nodeRan # "none" => gIntent \in Intents

\* C14 (as claimed): classifyIntent and routerNode never raise, whatever the
\* outcome of the classification model call: the router always yields an intent
\* and the turn goes on to a node.
C14_RouterNeverRaises ==
    ~(chatPc = "raised" /\ nodeRan = "none")

\* C15: in a turn the router runs once, then one node runs once, then the turn
\* ends: neither the router nor a node runs a second time, a node runs only
\* after the router, and a turn whose graph run completed ran both once.
C15_SingleShot ==
    /\ turnRuns.router <= 1
    /\ turnRuns.node <= turnRuns.router
    /\ chatPc = "router" => turnRuns = NoRuns
    /\ chatPc = "node" => turnRuns = [router |-> 1, node |-> 0]
    /\ chatPc = "end" \/ chatResponse.status = "200" =>
          turnRuns = [router |-> 1, node |-> 1] /\ nodeRan # "none"

\* C15 witness: a turn was answered after the router and the hotel node each
\* ran once.
C15_Witness ==
    /\ chatPc = "responded"
    /\ chatResponse.status = "200"
    /\ nodeRan = "hotelAgent"
    /\ turnRuns = [router |-> 1, node |-> 1]

C17_MessagesOnlyGrow ==
    nodeRan # "none" /\ ~nodeUpdate.raised =>
        /\ Len(nodeUpdate.messages) > Len(reqMessages)
        /\ SubSeq(nodeUpdate.messages, 1, Len(reqMessages)) = reqMessages
        /\ gMessages = nodeUpdate.messages

\* C17 witness: the flight node was given three messages, its agent called
\* tools, and it returned them all followed by the apology.
C17_Witness ==
    /\ FlightToolTurn
    /\ Len(reqMessages) = 3
    /\ Len(TurnMessages) >= 4
    /\ TurnLastMessage = Ai(Apology)
    /\ ~nodeUpdate.hasData

PlacesAgents == {"hotelAgent", "restaurantAgent", "activitiesAgent", "natureAgent",
                 "selfieAgent"}

\* C18: a places node given a trip without destination makes one model call,
\* the clarifying question, and calls neither searchNearbyPlaces nor the
\* generator; when that call answers, the node returns the messages it was given
\* followed by the question and sets no data.
C18_NoDestinationOnlyAsks ==
    nodeRan \in PlacesAgents /\ ~gTrip.destination =>
        /\ calls = [source |-> "none", templates |-> 0, clarified |-> TRUE,
                    summarized |-> FALSE, placeType |-> "none", coords |-> "none",
                    generator |-> NoGeneratorArgs, failed |-> "none"]
        /\ ~nodeUpdate.raised =>
              /\ nodeUpdate.messages = Append(reqMessages, Ai("question"))
              /\ ~nodeUpdate.hasData

\* C18 witness: the restaurant node, given a trip without destination, was
\* answered its question and the turn was answered with it.
C18_Witness ==
    /\ chatPc = "responded"
    /\ nodeRan = "restaurantAgent"
    /\ ~gTrip.destination
    /\ calls.clarified
    /\ TurnMessages = <<Ai("question")>>

\* the coordinates a places node looks for: the hotel node those of the
\* destination (trip.destinationCoords, else those of the airport the
\* destination names), the other nodes trip.hotelCoords
CoordsPresent ==
    IF nodeRan = "hotelAgent" THEN gTrip.destinationCoords \/ gTrip.airport
    ELSE gTrip.hotelCoords

C20_HotelSearchesAtHotelCoords ==
    (/\ nodeRan = "hotelAgent"
     /\ env.USE_PLACES_API = "true"
     /\ gTrip.destination /\ ~gTrip.airport
     /\ gTrip.hotelCoords) =>
        /\ calls.source = "places"
        /\ calls.placeType = "hotel"
        /\ calls.coords = "hotel"
        /\ nodeUpdate.hasData => nodeUpdate.data.options = "places"

\* C20 (amended): with USE_PLACES_API "true" and a trip that has the destination
\* "Tokyo", the hotel node calls searchNearbyPlaces with type "hotel" and the
\* trip's destinationCoords when it has them, returns its results as options
\* and does not call the generator; when the trip has hotelCoords but no
\* destinationCoords, it calls the generator over 10 templates instead and
\* does not call searchNearbyPlaces.
C20_Amended ==
    (/\ nodeRan = "hotelAgent"
     /\ env.USE_PLACES_API = "true"
     /\ gTrip.destination /\ ~gTrip.airport) =>
        /\ gTrip.destinationCoords =>
              /\ calls.source = "places"
              /\ calls.placeType = "hotel"
              /\ calls.coords = "destination"
              /\ calls.templates = 0
              /\ nodeUpdate.hasData => nodeUpdate.data.options = "places"
        /\ (gTrip.hotelCoords /\ ~gTrip.destinationCoords) =>
              /\ calls.source = "generator"
              /\ calls.templates = 10
              /\ calls.coords = "none"
              /\ nodeUpdate.hasData => nodeUpdate.data.options = "generated"

\* C20 witness: the hotel node searched at the destination's coordinates and
\* the turn was answered with what the search returned.
C20_Witness ==
    /\ chatPc = "responded"
    /\ nodeRan = "hotelAgent"
    /\ gTrip.destinationCoords
    /\ calls.source = "places"
    /\ calls.coords = "destination"
    /\ chatResponse.data.type = "hotel"
    /\ chatResponse.data.options = "places"

\* C21: after the hotel agent ran with external search disabled and a
\* destination present, it has called the generator exactly once, over exactly 5
\* templates whose fields other than the id are null (imageUrl empty), each with
\* an id of its own, with a description mentioning "hotel" and a context holding
\* the trip's destination
C21_HotelGeneratorCall ==
    (nodeRan = "hotelAgent" /\ env.USE_PLACES_API # "true" /\ gTrip.destination) =>
        LET g == calls.generator
        IN  /\ calls.source = "generator"
            /\ g.called = 1
            /\ Len(g.data) = 5
            /\ \A i \in 1..Len(g.data) :
                  /\ g.data[i].name = Null /\ g.data[i].location = Null
                  /\ g.data[i].rating = Null /\ g.data[i].latitude = Null
                  /\ g.data[i].longitude = Null /\ g.data[i].description = Null
                  /\ g.data[i].website = Null /\ g.data[i].imageUrl = ""
            /\ \A i, j \in 1..Len(g.data) : i # j => g.data[i].id # g.data[j].id
            /\ \E k \in 1..Len(g.description) : g.description[k] = "hotel"
            /\ g.context.destination = gTrip.destination
C21_Witness ==
    /\ nodeRan = "hotelAgent"
    /\ env.USE_PLACES_API = "false"
    /\ gTrip.destination
    /\ calls.generator.called = 1
    /\ Len(calls.generator.data) = 5

\* C22 (as claimed): whenever a places node went past the clarifying question
\* with summaries disabled, it made no summary model call, and if it returned
\* data its last message is the fixed placeholder sentence and the summary is
\* empty.
Placeholders ==
    { "Here are your hotel recommendations.",
      "Here are your selfie spot recommendations.",
      "Here are your activity recommendations." }
C22_SummaryOnlyWhenEnabled ==
    (nodeRan \in PlacesAgents /\ gTrip.destination
        /\ env.GENERATE_SUMMARIES # "true") =>
        /\ ~calls.summarized
        /\ nodeUpdate.hasData =>
              /\ nodeUpdate.messages[Len(nodeUpdate.messages)].content \in Placeholders
              /\ nodeUpdate.data.summary = ""

\* the apology each places node appends in its catch block
SorryOf(node) ==
    CASE node = "hotelAgent" ->
            "Something went wrong finding hotels. Please try again later."
      [] node = "restaurantAgent" ->
            "Something went wrong finding restaurants. Please try again later."
      [] node = "activitiesAgent" ->
            "Something went wrong finding activities. Please try again later."
      [] node = "natureAgent" ->
            "Something went wrong finding nature activities. Please try again later."
      [] OTHER -> "Something went wrong finding selfie spots. Please try again later."

\* C23: when the data-source call (searchNearbyPlaces or the generator) or the
\* summary call of a places node failed, the node returns the messages it was
\* given followed by its one apology and no data; and whenever a places node
\* returns data, no call failed, the options are there, and the summary is the
\* completed summary when the summary call was made and empty otherwise.
C23_FailureGivesApologyOnly ==
    nodeRan \in PlacesAgents =>
        /\ calls.failed # "none" =>
              /\ ~nodeUpdate.raised
              /\ nodeUpdate.messages = Append(reqMessages, Ai(SorryOf(nodeRan)))
              /\ ~nodeUpdate.hasData
        /\ nodeUpdate.hasData =>
              /\ calls.failed = "none"
              /\ nodeUpdate.data.options \in {"places", "generated"}
              /\ nodeUpdate.data.summary = IF calls.summarized THEN "summary" ELSE ""
\* C23 witness: the summary call of the natureAgent failed after searchNearbyPlaces
\* had answered, and the turn was answered
C23_Witness ==
    /\ chatPc = "responded"
    /\ nodeRan = "natureAgent"
    /\ calls.source = "places"
    /\ calls.failed = "summary"

\* C24 (as claimed): when the searchNearbyPlaces call of a places node failed,
\* the node has called the generator.
C24_AdapterFailureFallsBack ==
    (nodeRan \in PlacesAgents /\ calls.source = "places" /\ calls.failed = "source")
        => calls.generator.called = 1

\* a Tips record with an id and its tips filled in
TipsWellFormed(via, t) ==
    IF via = "analyzeTips"
    THEN /\ t.id \notin {Null, Undefined}
         /\ t.transportTips \notin {Null, Undefined}
         /\ t.safetyTips \notin {Null, Undefined}
         /\ t.whenToVisitTips \notin {Null, Undefined}
    ELSE /\ t["id"] \notin {Null, Undefined}
         /\ t["name"] \notin {Null, Undefined}

\* C25 (as claimed): whatever the trip and whatever the encyclopedia, model and
\* generator calls answer, generateTips ends by returning exactly one
\* well-formed Tips record; it never rejects.
C25_TipsTotal ==
    tips.pc \in {"done", "raised"} =>
        /\ tips.result.status = "returned"
        /\ Len(tips.result.tips) = 1
        /\ TipsWellFormed(tips.result.via, tips.result.tips[1])

\* a stage of the pipeline that ran and yielded nothing
TipsYieldedNothing ==
    \/ "search" \in tips.reached /\ ~tips.caught /\ tips.pageId = Null
    \/ "toc" \in tips.reached /\ tips.sections = <<>>
    \/ "fetch" \in tips.reached /\ tips.classified = <<>>
    \/ "fetch" \in tips.reached
          /\ \A i \in 1..Len(tips.sectionContents) : tips.sectionContents[i].content = <<>>

\* C26 (as claimed): when a stage yielded nothing (no page id, no sections, no
\* classified sections, or no non-empty section content), what generateTips
\* returns is the generator's result, not a synthesis of analyzeTips.
C26_NothingFallsBackToGenerator ==
    (tips.pc = "done" /\ TipsYieldedNothing) => tips.result.via = "generator"

\* C27: in one run the full extract is fetched at most once, and only when one
\* of the three buckets was empty after grouping; when it was fetched and is
\* not null, every bucket that was empty holds exactly the extract and every
\* other bucket is as it was after grouping.
C27_LazySingleBackfill ==
    /\ tips.fetches <= 1
    /\ tips.fetches = 1 =>
          /\ \E c \in Categories : tips.before[c] = <<>>
          /\ tips.fullText # NoText =>
                \A c \in Categories :
                    tips.grouped[c] = IF tips.before[c] = <<>>
                                      THEN <<tips.fullText>> ELSE tips.before[c]
    /\ ("analyze" \in tips.reached /\ tips.fetches = 0) =>
          \A c \in Categories : tips.grouped[c] # <<>>
\* C27 witness: the extract was fetched, is not null, and filled an empty bucket
\* next to one that had section content
C27_Witness ==
    /\ tips.fetches = 1
    /\ tips.fullText = <<"extract">>
    /\ tips.before["safety"] = <<>>
    /\ tips.grouped["safety"] = << <<"extract">> >>
    /\ tips.before["transportation"] # <<>>
    /\ tips.grouped["transportation"] = tips.before["transportation"]

\* C28: when a fan-out resolves, its i-th result belongs to its i-th request
\* whatever the order in which the calls settled: the i-th tool message answers
\* the i-th tool call, the i-th section content is that of the i-th classified
\* section and carries that section's index, line and category.
C28_ResultsPairedByIndex ==
    fan.pc = "done" =>
        /\ Len(fan.result) = Len(fan.requests)
        /\ \A i \in 1..Len(fan.requests) :
              IF fan.kind = "tools"
              THEN /\ fan.result[i].tool_call_id = fan.requests[i].id
                   /\ fan.result[i].content =
                         (IF fan.requests[i].name = "add" THEN "number" ELSE "arrayA")
              ELSE /\ fan.result[i].index = fan.requests[i].index
                   /\ fan.result[i].line = fan.requests[i].line
                   /\ fan.result[i].category = fan.requests[i].category
                   /\ fan.result[i].content \in {<<>>, <<"section", fan.requests[i].index>>}
\* C28 witness: two different tool calls whose second settled first
C28_Witness ==
    /\ fan.pc = "done"
    /\ fan.kind = "tools"
    /\ fan.order = <<2, 1>>
    /\ fan.requests[1].name # fan.requests[2].name

\* C30: whatever the outcome of the turn, the messages /chat returns are human
\* and assistant messages only, and no returned assistant message has empty or
\* white-space content; an answer that is not 200 carries no messages at all.
C30_OnlyHumanAndSpokenAi ==
    /\ \A i \in 1..Len(chatResponse.messages) :
          /\ chatResponse.messages[i].type \in {"human", "ai"}
          /\ chatResponse.messages[i].type = "ai" =>
                chatResponse.messages[i].content \notin {"", " "}
    /\ chatResponse.status # "200" => chatResponse.messages = <<>>
\* C30 witness: a turn answered 200 whose final state held a tool message, an
\* assistant message without content and one of white space only
C30_Witness ==
    /\ chatPc = "responded"
    /\ chatResponse.status = "200"
    /\ \E i \in 1..Len(gMessages) : gMessages[i].type = "tool"
    /\ \E i \in 1..Len(gMessages) : gMessages[i].type = "ai" /\ gMessages[i].content = ""
    /\ \E i \in 1..Len(gMessages) : gMessages[i].type = "ai" /\ gMessages[i].content = " "
    /\ chatResponse.messages # <<>>

\* C31 (as claimed): the flight node runs the Amadeus tool-loop agent when
\* USE_FLIGHT_API is "true", and the generator path (its clarifying question or
\* the generator, never the agent) when USE_FLIGHT_API is "false".
C31_FlightApiFlag ==
    nodeRan = "flightAgent" =>
        /\ env.USE_FLIGHT_API = "true" => calls.source = "agent"
        /\ env.USE_FLIGHT_API = "false" => calls.source # "agent"

\* C32 (as claimed): a configuration error (a missing model selection, missing
\* provider credentials) is raised while the process starts, before any
\* request is served; it never first surfaces while a request is processed.
C32_ConfigErrorsAtStartup ==
    boot.configError # "request"

\* C33: while a turn runs the state's trip is the trip of the request, and the
\* trip of a 200 answer equals it in destination (with what it names) and in
\* the flight fields: no node adds, changes or clears them.  (No node returns
\* a trip at all, so the coordinates are as they came too.)
C33_TripIsNotTouched ==
    /\ chatPc \in {"router", "node", "end", "raised", "responded"} => gTrip = reqTrip
    /\ chatResponse.status = "200" =>
          /\ chatResponse.trip.destination = reqTrip.destination
          /\ chatResponse.trip.airport = reqTrip.airport
          /\ chatResponse.trip.flightFields = reqTrip.flightFields
\* C33 witness: a 200 answer after the hotel node looked the coordinates of the
\* destination's airport up
C33_Witness ==
    /\ chatPc = "responded"
    /\ chatResponse.status = "200"
    /\ nodeRan = "hotelAgent"
    /\ calls.coords = "airport"
    /\ reqTrip.destination
    /\ chatResponse.trip = reqTrip

\* C34: whatever state the unsupported node is given, it calls no model (and
\* nothing else), does not raise, and returns the messages it was given
\* followed by one assistant message of one fixed text, with no data.
C34_UnsupportedIsFixed ==
    nodeRan = "unsupportedNode" =>
        /\ calls.source = "none"
        /\ ~calls.clarified
        /\ ~calls.summarized
        /\ calls.generator.called = 0
        /\ ~nodeUpdate.raised
        /\ ~nodeUpdate.hasData
        /\ nodeUpdate.messages =
              Append(reqMessages,
                     [type |-> "ai",
                      content |-> "I can only help with helping you plan a trip. What would you like to do?",
                      calls |-> 0])
\* C34 witness: the node ran for an intent the model made up, in a turn whose
\* request carried data and a longer conversation
C34_Witness ==
    /\ nodeRan = "unsupportedNode"
    /\ gIntent = "other"
    /\ reqData # NoData
    /\ Len(reqMessages) = 3
    /\ Len(nodeUpdate.messages) = 4

C36_FailedExchangeKeepsCache ==
    [][(\E c \in Callers : /\ callers[c].pc = "fetching"
                           /\ callers'[c].pc = "idle"
                           /\ lastReturn'.path = "threw")
         => /\ cachedToken' = cachedToken
            /\ tokenExpiresAt' = tokenExpiresAt
            /\ lastReturn'.token = 0
            /\ (now' < tokenExpiresAt' /\ cachedToken' # 0)
                  <=> (now < tokenExpiresAt /\ cachedToken # 0)]_vars
\* C36 witness: an exchange failed while a token of an earlier exchange was
\* cached (and stale); the token and its expiry are still there, and the
\* next call misses the cache again
C36_Witness ==
    /\ lastReturn.path = "threw"
    /\ cachedToken = 1
    /\ exchanges = 1
    /\ tokenExpiresAt # 0
    /\ ~(now < tokenExpiresAt)
    /\ \E c \in Callers : callers[c].pc = "idle"

C38_OutputIdsDistinct ==
    (/\ genPc = "returned"
     /\ \A i, j \in 1..Len(genData.value) :
            /\ genData.value[i]["id"] \notin {Null, Undefined}
            /\ i # j => genData.value[i]["id"] # genData.value[j]["id"])
        => \A i, j \in 1..Len(genOut) : i # j => genOut[i]["id"] # genOut[j]["id"]

\* C39 (as claimed): a 200 answer shows the caller at least one new assistant
\* message after the messages of the request (as many of them as the filter
\* lets through): no turn ends without a visible reply.
C39_SuccessHasVisibleReply ==
    chatResponse.status = "200" =>
        \E i \in 1..Len(chatResponse.messages) :
            /\ i > Len(filterForClient(reqMessages))
            /\ chatResponse.messages[i].type = "ai"
            /\ chatResponse.messages[i].content # ""

(***************************************************************************)
(* Claims about the flight search tool (SearchSpec).                       *)
(***************************************************************************)
\* C40 (as claimed): what searchFlights returns has exactly one entry per
\* offer of the provider, in the provider's order (the i-th entry carries the
\* i-th offer's price and carriers), and no offer appears in it twice (the
\* entries' ids are pairwise distinct).
C40_OneEntryPerOffer ==
    search.pc = "returned" =>
        /\ Len(search.out) = Len(search.rawData)
        /\ \A i \in 1..Len(search.out) :
              i <= Len(search.rawData) =>
                  /\ search.out[i].price = search.rawData[i].total
                  /\ Len(search.out[i].legs) = 2
        /\ \A i, j \in 1..Len(search.out) : i # j => search.out[i].id # search.out[j].id

=============================================================================
